---- MODULE Spec2Model ----
(***************************************************************************)
(* A model of the Binance exchange connectivity layer of basana:           *)
(* the SpotExchange / FuturesExchange facades (pair-info cache, channel    *)
(* multiplexer over one shared websocket client, instrument resolution).   *)
(*                                                                         *)
(* One facade instance is modelled; its class is chosen at construction.   *)
(* Optional values (Python None) are sequences of length 0 or 1.           *)
(***************************************************************************)
EXTENDS Integers, Sequences, FiniteSets, TLC

VARIABLES
    facade,              \* class of the facade instance under study
    _pair_info_cache,    \* self._pair_info_cache : pair -> PairInfoEx
    calls,               \* get_pair_info / get_pair coroutines, in start order
    requests,            \* number of get_exchange_info requests issued per pair
    clock,               \* logical time: one tick per call start or return
    _websocket,          \* self._websocket : 0 is None, n > 0 the n-th client built
    ws_created,          \* number of WebSocketClient objects constructed
    channel_event_sources, \* registry of the websocket client: channel -> source
    src_created,         \* number of event sources built per channel
    event_handlers,      \* dispatcher: event source -> handlers, in order
    sub_log,             \* the subscribe calls that returned, in order
    last_call,           \* the last facade subscribe call and how it ended
    emitted,             \* per channel: number of events the venue emitted
    pending,             \* per channel: frames in flight, oldest first
    received,            \* per handler and channel: the events it was called with
    last_dispatch,       \* the last dispatch cycle of the dispatcher
    pair_call,           \* the last get_pair call: arguments, answer, outcome
    _cli,                \* self._cli : the REST client the facade built
    _tb,                 \* self._tb : the limiter the facade was given
    rest,                \* requests made through the REST client, in start order
    limiter,             \* the limiter: who holds it, acquisitions, releases
    exchanges,           \* Exchange.create calls and what each returned
    order_calls,         \* Account.create_*order coroutines, in start order
    transport_orders,    \* create_order invocations the transport received
    info_calls,          \* Account.get_order_info coroutines, in start order
    info_requests,       \* query_order / get_trades requests the transport received
    venue_fills,         \* per venue order: the number of fills so far
    view                 \* the payload view under study and what it exposes

vars == <<facade, _pair_info_cache, calls, requests, clock, _websocket,
          ws_created, channel_event_sources, src_created, event_handlers,
          sub_log, last_call, emitted, pending, received, last_dispatch,
          pair_call, _cli, _tb, rest, limiter, exchanges, order_calls, transport_orders,
          info_calls, info_requests, venue_fills, view>>

cache_vars == <<_pair_info_cache, calls, requests, clock>>
mux_vars == <<_websocket, ws_created, channel_event_sources, src_created,
              event_handlers, sub_log, last_call>>
stream_vars == <<emitted, pending, received, last_dispatch>>
rest_vars == <<_cli, _tb, rest, limiter, exchanges>>
info_vars == <<info_calls, info_requests, venue_fills>>
order_vars == <<order_calls, transport_orders, info_vars>>

(***************************************************************************)
(* Bounds                                                                  *)
(***************************************************************************)
MaxCalls == 2
MaxCatalog == 2
MaxSubs == 2
MaxStreamSubs == 2
MaxEvents == 2
MaxPairCalls == 2
MaxRestRequests == 2
MaxOrderCalls == 2
MaxTrades == 3
MaxLegs == 2
MaxInfoCalls == 1
MaxFills == 2
MaxCreates == 2

Facades == {"SpotExchange", "FuturesExchange"}

(***************************************************************************)
(* Pairs (basana/core/pair.py)                                             *)
(***************************************************************************)
Pair(base, quote) == [base_symbol |-> base, quote_symbol |-> quote]

FuturesPair(symbol, base, quote, contract_type, delivery_date) ==
    [base_symbol |-> base, quote_symbol |-> quote, symbol |-> symbol,
     contract_type |-> contract_type, delivery_date |-> delivery_date]

\* Delivery timestamps as the venue reports them, shortened to day numbers.
PerpetualDelivery == 0
QuarterDelivery == 1

SpotPairs == {Pair("BTC", "USDT"), Pair("ETH", "USDT")}

FuturesPairs ==
    {FuturesPair("BTCUSDT", "BTC", "USDT", "PERPETUAL", PerpetualDelivery),
     FuturesPair("ETHUSDT", "ETH", "USDT", "PERPETUAL", PerpetualDelivery),
     FuturesPair("BTCUSDT_Q", "BTC", "USDT", "CURRENT_QUARTER", QuarterDelivery)}

PairsOf(f) == IF f = "SpotExchange" THEN SpotPairs ELSE FuturesPairs

\* helpers.pair_to_order_book_symbol: base and quote symbols, joined, upper case.
pair_to_order_book_symbol(pair) == pair.base_symbol \o pair.quote_symbol

(***************************************************************************)
(* Venue payloads: what get_exchange_info may answer                       *)
(***************************************************************************)
PriceFilter(tick) == [filterType |-> "PRICE_FILTER", tickSize |-> tick, stepSize |-> ""]
LotSize(step) == [filterType |-> "LOT_SIZE", tickSize |-> "", stepSize |-> step]
BothFilters(tick, step) == <<PriceFilter(tick), LotSize(step)>>

SymbolInfo(symbol, pair, base, quote, ct, dd, filters) ==
    [symbol |-> symbol, pair |-> pair, baseAsset |-> base, quoteAsset |-> quote,
     contractType |-> ct, deliveryDate |-> dd, filters |-> filters,
     permissions |-> <<"TRADING">>]

\* Instruments a futures catalog may list. The second entry is the first one
\* after a tick-size change; the ETH entries each lack one of the two filters.
FuturesSymbolInfos ==
    {SymbolInfo("BTCUSDT", "BTCUSDT", "BTC", "USDT", "PERPETUAL", PerpetualDelivery,
                BothFilters("0.1", "0.001")),
     SymbolInfo("BTCUSDT", "BTCUSDT", "BTC", "USDT", "PERPETUAL", PerpetualDelivery,
                BothFilters("0.01", "0.001")),
     SymbolInfo("BTCUSDT_Q", "BTCUSDT", "BTC", "USDT", "CURRENT_QUARTER", QuarterDelivery,
                BothFilters("0.1", "0.001")),
     SymbolInfo("ETHUSDT", "ETHUSDT", "ETH", "USDT", "PERPETUAL", PerpetualDelivery,
                <<LotSize("0.01")>>),
     SymbolInfo("ETHUSDT", "ETHUSDT", "ETH", "USDT", "PERPETUAL", PerpetualDelivery,
                <<PriceFilter("0.01")>>)}

\* Spot symbols: the contract fields are not part of a spot payload and are
\* never read by SpotExchange.
SpotSymbolInfos ==
    {SymbolInfo("BTCUSDT", "", "BTC", "USDT", "", 0, BothFilters("0.01", "0.00001")),
     SymbolInfo("BTCUSDT", "", "BTC", "USDT", "", 0, BothFilters("0.1", "0.00001")),
     SymbolInfo("ETHUSDT", "", "ETH", "USDT", "", 0, <<LotSize("0.001")>>),
     SymbolInfo("ETHUSDT", "", "ETH", "USDT", "", 0, <<PriceFilter("0.01")>>)}

SeqsUpTo(S, n) == UNION {[1..k -> S] : k \in 0..n}

\* A response of get_exchange_info: the client raises Error, or a payload
\* with a "symbols" list arrives.
Responses(f) ==
    {[error |-> TRUE, symbols |-> <<>>]} \cup
    {[error |-> FALSE, symbols |-> s] :
        s \in SeqsUpTo(IF f = "SpotExchange" THEN SpotSymbolInfos ELSE FuturesSymbolInfos,
                       MaxCatalog)}

(***************************************************************************)
(* Module-level helpers of exchange.py                                     *)
(***************************************************************************)
\* Optional[dict]: <<>> is None, <<f>> the first filter of the type.
get_filter_from_symbol_info(symbol_info, filter_type) ==
    LET price_filters == SelectSeq(symbol_info.filters,
                                    LAMBDA f : f.filterType = filter_type)
    IN  IF price_filters = <<>> THEN <<>> ELSE <<price_filters[1]>>

\* int(-log10(step_size) / log10(10)) on the step sizes the venue uses.
get_precision_from_step_size(step_size) ==
    CASE step_size = "1" -> 0
      [] step_size = "0.1" -> 1
      [] step_size = "0.01" -> 2
      [] step_size = "0.001" -> 3
      [] step_size = "0.0001" -> 4
      [] step_size = "0.00001" -> 5

(***************************************************************************)
(* get_pair_info: the pair-info cache                                      *)
(***************************************************************************)
Failure(kind) == [ok |-> FALSE, error |-> kind, value |-> <<>>]
Success(v) == [ok |-> TRUE, error |-> "", value |-> <<v>>]

\* dict.get: <<>> is None.
CacheGet(cache, pair) == IF pair \in DOMAIN cache THEN <<cache[pair]>> ELSE <<>>

\* The assignment to the cache left out.
CacheStoreDropped(cache, pair, info) == cache

\* self._pair_info_cache[pair] = ret
CacheStore(cache, pair, info) ==
    [q \in DOMAIN cache \cup {pair} |-> IF q = pair THEN info ELSE cache[q]]

\* "if not ret": a missing entry is the only falsy value, a PairInfoEx
\* instance is always truthy.
CacheMiss(ret) == ret = <<>>

\* SpotExchange.get_pair_info, from the answer of get_exchange_info on.
SpotPairInfo(exchange_info) ==
    LET symbols == exchange_info.symbols IN
    IF Len(symbols) # 1 THEN Failure("AssertionError") ELSE
    LET symbol_info == symbols[1]
        price_filter == get_filter_from_symbol_info(symbol_info, "PRICE_FILTER")
        lot_size == get_filter_from_symbol_info(symbol_info, "LOT_SIZE")
    IN  IF price_filter = <<>> THEN Failure("AssertionError")
        ELSE IF lot_size = <<>> THEN Failure("AssertionError")
        ELSE Success([base_precision |-> get_precision_from_step_size(lot_size[1].stepSize),
                      quote_precision |-> get_precision_from_step_size(price_filter[1].tickSize),
                      permissions |-> symbol_info.permissions])

\* The two filter() calls of FuturesExchange.get_pair_info.
FuturesPairInfoMatches(futures_pair, symbols) ==
    SelectSeq(SelectSeq(symbols,
                          LAMBDA x : x.symbol = pair_to_order_book_symbol(futures_pair)),
               LAMBDA x : x.contractType = futures_pair.contract_type)

\* The "More than 1 symbol found" assertion left out.
FuturesPairInfoFirstMatch(futures_pair, exchange_info) ==
    LET symbols == FuturesPairInfoMatches(futures_pair, exchange_info.symbols) IN
    IF ~(Len(symbols) > 0) THEN Failure("AssertionError") ELSE
    LET symbol_info == symbols[1]
        price_filter == get_filter_from_symbol_info(symbol_info, "PRICE_FILTER")
        lot_size == get_filter_from_symbol_info(symbol_info, "LOT_SIZE")
    IN  IF price_filter = <<>> THEN Failure("AssertionError")
        ELSE IF lot_size = <<>> THEN Failure("AssertionError")
        ELSE Success([base_precision |-> get_precision_from_step_size(lot_size[1].stepSize),
                      quote_precision |-> get_precision_from_step_size(price_filter[1].tickSize),
                      contract_type |-> symbol_info.contractType,
                      delivery_date |-> symbol_info.deliveryDate,
                      permissions |-> symbol_info.permissions])

\* FuturesExchange.get_pair_info, from the answer of get_exchange_info on.
FuturesPairInfo(futures_pair, exchange_info) ==
    LET symbols == FuturesPairInfoMatches(futures_pair, exchange_info.symbols) IN
    IF ~(Len(symbols) > 0) THEN Failure("AssertionError")
    ELSE IF Len(symbols) # 1 THEN Failure("AssertionError") ELSE
    LET symbol_info == symbols[1]
        price_filter == get_filter_from_symbol_info(symbol_info, "PRICE_FILTER")
        lot_size == get_filter_from_symbol_info(symbol_info, "LOT_SIZE")
    IN  IF price_filter = <<>> THEN Failure("AssertionError")
        ELSE IF lot_size = <<>> THEN Failure("AssertionError")
        ELSE Success([base_precision |-> get_precision_from_step_size(lot_size[1].stepSize),
                      quote_precision |-> get_precision_from_step_size(price_filter[1].tickSize),
                      contract_type |-> symbol_info.contractType,
                      delivery_date |-> symbol_info.deliveryDate,
                      permissions |-> symbol_info.permissions])

\* The client's error swallowed: the lookup answers with empty metadata.
PairInfoFromErrorSwallowed(f, pair, exchange_info) ==
    IF exchange_info.error
    THEN Success([base_precision |-> 0, quote_precision |-> 0, permissions |-> <<>>])
    ELSE IF f = "SpotExchange" THEN SpotPairInfo(exchange_info)
    ELSE FuturesPairInfo(pair, exchange_info)

PairInfoFrom(f, pair, exchange_info) ==
    IF exchange_info.error THEN Failure("Error")
    ELSE IF f = "SpotExchange" THEN SpotPairInfo(exchange_info)
    ELSE FuturesPairInfo(pair, exchange_info)

\* The catalog entries get_pair_info has to select for a futures pair.
EntriesFor(futures_pair, symbols) ==
    {k \in 1..Len(symbols) :
        /\ symbols[k].symbol = pair_to_order_book_symbol(futures_pair)
        /\ symbols[k].contractType = futures_pair.contract_type}

HasFilter(symbol_info, filter_type) ==
    \E n \in 1..Len(symbol_info.filters) :
        symbol_info.filters[n].filterType = filter_type

\* What an answer of get_exchange_info held for the pair of the call: whether
\* the client raised, how many entries the lookup has to choose from (spot
\* asks for one symbol, so every entry of the answer; futures, the entries
\* of the pair's symbol and contract type), and whether each of them has
\* both filters. Kept with the call for the properties to refer to.
AnswerSummary(f, pair, exchange_info) ==
    LET symbols == exchange_info.symbols
        entries == IF f = "SpotExchange" THEN 1..Len(symbols)
                   ELSE EntriesFor(pair, symbols)
    IN  [error |-> exchange_info.error,
         found |-> Cardinality(entries),
         complete |-> \A k \in entries : /\ HasFilter(symbols[k], "PRICE_FILTER")
                                         /\ HasFilter(symbols[k], "LOT_SIZE")]

\* A call of get_pair_info up to its first suspension point: a cache hit
\* returns at once, a miss issues get_exchange_info and awaits the answer.
GetPairInfoCall(pair) ==
    /\ Len(calls) < MaxCalls
    /\ LET ret == CacheGet(_pair_info_cache, pair) IN
       IF CacheMiss(ret)
       THEN /\ calls' = Append(calls, [pair |-> pair, pc |-> "awaiting", reqs |-> 1,
                                       outcome |-> "none", value |-> <<>>,
                                       answer |-> <<>>,
                                       start |-> clock + 1, end |-> 0])
            /\ requests' = [requests EXCEPT ![pair] = @ + 1]
       ELSE /\ calls' = Append(calls, [pair |-> pair, pc |-> "done", reqs |-> 0,
                                       outcome |-> "ok", value |-> ret,
                                       answer |-> <<>>,
                                       start |-> clock + 1, end |-> clock + 1])
            /\ UNCHANGED requests
    /\ clock' = clock + 1
    /\ UNCHANGED <<facade, rest_vars, order_vars, view, _pair_info_cache, mux_vars, stream_vars, pair_call>>

\* The awaited answer arrives and the call runs to its end.
GetPairInfoReturn(i, exchange_info) ==
    /\ calls[i].pc = "awaiting"
    /\ LET res == PairInfoFrom(facade, calls[i].pair, exchange_info) IN
       /\ calls' = [calls EXCEPT ![i] = [@ EXCEPT !.pc = "done",
                                         !.outcome = IF res.ok THEN "ok" ELSE res.error,
                                         !.value = res.value,
                                         !.answer = <<AnswerSummary(facade, calls[i].pair,
                                                                    exchange_info)>>,
                                         !.end = clock + 1]]
       /\ _pair_info_cache' = IF res.ok
                              THEN CacheStore(_pair_info_cache, calls[i].pair, res.value[1])
                              ELSE _pair_info_cache
    /\ clock' = clock + 1
    /\ UNCHANGED <<facade, rest_vars, order_vars, view, requests, mux_vars, stream_vars, pair_call>>

get_pair_info_call == \E pair \in PairsOf(facade) : GetPairInfoCall(pair)

get_pair_info_return ==
    \E i \in 1..Len(calls) : \E exchange_info \in Responses(facade) :
        GetPairInfoReturn(i, exchange_info)

(***************************************************************************)
(* Channel multiplexer: subscribe_to_*_events                              *)
(***************************************************************************)
\* A bar duration (Union[int, str]), an order book depth (int), or nothing.
IntParam(n) == [type |-> "int", n |-> n, s |-> ""]
StrParam(s) == [type |-> "str", n |-> 0, s |-> s]
NoParam == [type |-> "none", n |-> 0, s |-> ""]

\* The dict literal of subscribe_to_bar_events: <<key, interval>>.
BarIntervals ==
    {<<IntParam(1), "1s">>, <<IntParam(60), "1m">>, <<IntParam(3 * 60), "3m">>,
     <<IntParam(5 * 60), "5m">>, <<IntParam(15 * 60), "15m">>,
     <<IntParam(30 * 60), "30m">>, <<IntParam(3600), "1h">>,
     <<IntParam(2 * 3600), "2h">>, <<IntParam(4 * 3600), "4h">>,
     <<IntParam(6 * 3600), "6h">>, <<IntParam(8 * 3600), "8h">>,
     <<IntParam(12 * 3600), "12h">>, <<IntParam(86400), "1d">>,
     <<IntParam(3 * 86400), "3d">>, <<IntParam(7 * 86400), "1w">>,
     <<IntParam(31 * 86400), "1M">>,
     <<StrParam("1s"), "1s">>, <<StrParam("1m"), "1m">>, <<StrParam("3m"), "3m">>,
     <<StrParam("5m"), "5m">>, <<StrParam("15m"), "15m">>, <<StrParam("30m"), "30m">>,
     <<StrParam("1h"), "1h">>, <<StrParam("2h"), "2h">>, <<StrParam("4h"), "4h">>,
     <<StrParam("6h"), "6h">>, <<StrParam("8h"), "8h">>, <<StrParam("12h"), "12h">>,
     <<StrParam("1d"), "1d">>, <<StrParam("3d"), "3d">>, <<StrParam("1w"), "1w">>,
     <<StrParam("1M"), "1M">>}

\* A legacy table with the hour row keyed by 60 seconds.
BarIntervalMinuteAsHour(bar_duration) ==
    IF bar_duration = IntParam(60) THEN <<"1h">>
    ELSE LET hits == {e \in BarIntervals : e[1] = bar_duration}
         IN  IF hits = {} THEN <<>> ELSE <<(CHOOSE e \in hits : TRUE)[2]>>

\* The table dropped for strings, which are then taken as they come.
BarIntervalUnchecked(bar_duration) ==
    IF bar_duration.type = "str" THEN <<bar_duration.s>>
    ELSE LET hits == {e \in BarIntervals : e[1] = bar_duration}
         IN  IF hits = {} THEN <<>> ELSE <<(CHOOSE e \in hits : TRUE)[2]>>

\* {...}.get(bar_duration): <<>> is None.
BarInterval(bar_duration) ==
    LET hits == {e \in BarIntervals : e[1] = bar_duration}
    IN  IF hits = {} THEN <<>> ELSE <<(CHOOSE e \in hits : TRUE)[2]>>

Handlers == {"h1", "h2"}
SubPairs == {Pair("BTC", "USDT")}
BarDurations == {IntParam(60), StrParam("1m"), StrParam("1h"), StrParam("2m"), IntParam(7)}
\* The depths the docstring of subscribe_to_order_book_events lists as valid.
DocumentedDepths == {5, 10, 20}
Depths == {7, 10}

Lower(symbol) ==
    CASE symbol = "BTCUSDT" -> "btcusdt"
      [] symbol = "ETHUSDT" -> "ethusdt"

DepthStr(depth) ==
    CASE depth = 5 -> "5"
      [] depth = 7 -> "7"
      [] depth = 10 -> "10"
      [] depth = 20 -> "20"

\* klines.get_channel, order_book.get_channel, trades.get_channel: the stream
\* kind and its parameters as one string.
klines_get_channel(pair, interval) ==
    Lower(pair_to_order_book_symbol(pair)) \o "@kline_" \o interval
order_book_get_channel(pair, depth) ==
    Lower(pair_to_order_book_symbol(pair)) \o "@depth" \o DepthStr(depth)
trades_get_channel(pair) ==
    Lower(pair_to_order_book_symbol(pair)) \o "@trade"

\* The channel names the subscribe calls below can come to.
Channels ==
    {klines_get_channel(p, e[2]) : p \in SubPairs,
                                  e \in {x \in BarIntervals : x[1] \in BarDurations}} \cup
    {klines_get_channel(p, d.s) : p \in SubPairs,
                                  d \in {x \in BarDurations : x.type = "str"}} \cup
    {order_book_get_channel(p, d) : p \in SubPairs, d \in Depths} \cup
    {trades_get_channel(p) : p \in SubPairs}

\* A websocket client built on every call.
get_ws_client_always_new(websocket, created) ==
    [websocket |-> created + 1, ws_created |-> created + 1]

\* SpotExchange._get_ws_client / FuturesExchange._get_ws_client: the client
\* to use and the number of clients built so far.
_get_ws_client(websocket, created) ==
    IF websocket = 0
    THEN [websocket |-> created + 1, ws_created |-> created + 1]
    ELSE [websocket |-> websocket, ws_created |-> created]

\* The registry of websocket client ws (empty when it has none yet).
Registry(ws) ==
    IF ws \in DOMAIN channel_event_sources THEN channel_event_sources[ws] ELSE <<>>

\* WebSocketClient.get_channel_event_source: <<>> is None.
get_channel_event_source(registry, channel) ==
    IF channel \in DOMAIN registry THEN <<registry[channel]>> ELSE <<>>

\* WebSocketClient.set_channel_event_source.
set_channel_event_source(registry, channel, event_source) ==
    [c \in DOMAIN registry \cup {channel} |->
        IF c = channel THEN event_source ELSE registry[c]]

\* EventDispatcher.subscribe: the handler joins the source's handlers, last,
\* unless it is one of them already.
dispatcher_subscribe(handlers, event_source, event_handler) ==
    LET old == IF event_source \in DOMAIN handlers THEN handlers[event_source] ELSE <<>>
        new == IF \E i \in 1..Len(old) : old[i] = event_handler
               THEN old ELSE Append(old, event_handler)
    IN  [s \in DOMAIN handlers \cup {event_source} |->
            IF s = event_source THEN new ELSE handlers[s]]

\* A source is taken as missing whatever the registry answered.
SourceMissingAlways(event_source) == TRUE

\* "if not event_source"
SourceMissing(event_source) == event_source = <<>>

\* The handler is subscribed only inside the "if not event_source" block.
subscribe_only_with_new_source(kind, pair, param, channel, event_handler) ==
    LET cli == _get_ws_client(_websocket, ws_created)
        registry == Registry(cli.websocket)
        found == get_channel_event_source(registry, channel)
        create == SourceMissing(found)
        event_source == IF create
                        THEN [channel |-> channel, n |-> src_created[channel] + 1]
                        ELSE found[1]
    IN  /\ _websocket' = cli.websocket
        /\ ws_created' = cli.ws_created
        /\ src_created' = IF create THEN [src_created EXCEPT ![channel] = @ + 1]
                          ELSE src_created
        /\ channel_event_sources' =
               [c \in DOMAIN channel_event_sources \cup {cli.websocket} |->
                   IF c # cli.websocket THEN channel_event_sources[c]
                   ELSE IF create
                        THEN set_channel_event_source(registry, channel, event_source)
                        ELSE registry]
        /\ event_handlers' = IF create
                             THEN dispatcher_subscribe(event_handlers, event_source, event_handler)
                             ELSE event_handlers
        /\ sub_log' = Append(sub_log, [kind |-> kind, pair |-> pair, param |-> param,
                                       channel |-> channel, handler |-> event_handler,
                                       source |-> event_source,
                                       at |-> emitted[channel] - Len(pending[channel])])
        /\ last_call' = [kind |-> kind, pair |-> pair, param |-> param,
                         handler |-> event_handler, raised |-> FALSE]

\* SpotExchange._subscribe_to_ws_channel_events and its twin in
\* FuturesExchange, with the bookkeeping of the call that made it.
_subscribe_to_ws_channel_events(kind, pair, param, channel, event_handler) ==
    LET cli == _get_ws_client(_websocket, ws_created)
        registry == Registry(cli.websocket)
        found == get_channel_event_source(registry, channel)
        create == SourceMissing(found)
        event_source == IF create
                        THEN [channel |-> channel, n |-> src_created[channel] + 1]
                        ELSE found[1]
    IN  /\ _websocket' = cli.websocket
        /\ ws_created' = cli.ws_created
        /\ src_created' = IF create THEN [src_created EXCEPT ![channel] = @ + 1]
                          ELSE src_created
        /\ channel_event_sources' =
               [c \in DOMAIN channel_event_sources \cup {cli.websocket} |->
                   IF c # cli.websocket THEN channel_event_sources[c]
                   ELSE IF create
                        THEN set_channel_event_source(registry, channel, event_source)
                        ELSE registry]
        /\ event_handlers' = dispatcher_subscribe(event_handlers, event_source, event_handler)
        /\ sub_log' = Append(sub_log, [kind |-> kind, pair |-> pair, param |-> param,
                                       channel |-> channel, handler |-> event_handler,
                                       source |-> event_source,
                                       at |-> emitted[channel] - Len(pending[channel])])
        /\ last_call' = [kind |-> kind, pair |-> pair, param |-> param,
                         handler |-> event_handler, raised |-> FALSE]

\* The call raises before it touches the facade.
Raise(kind, pair, param, event_handler) ==
    /\ last_call' = [kind |-> kind, pair |-> pair, param |-> param,
                     handler |-> event_handler, raised |-> TRUE]
    /\ UNCHANGED <<_websocket, ws_created, channel_event_sources, src_created,
                   event_handlers, sub_log>>

SubscribeToBarEvents(pair, bar_duration, event_handler) ==
    /\ Len(sub_log) < MaxSubs
    /\ LET interval == BarInterval(bar_duration) IN
       IF interval = <<>>
       THEN Raise("bar", pair, bar_duration, event_handler)
       ELSE _subscribe_to_ws_channel_events("bar", pair, bar_duration,
                                            klines_get_channel(pair, interval[1]),
                                            event_handler)
    /\ UNCHANGED <<facade, rest_vars, order_vars, view, cache_vars, stream_vars, pair_call>>

SubscribeToOrderBookEvents(pair, event_handler, depth) ==
    /\ Len(sub_log) < MaxSubs
    /\ _subscribe_to_ws_channel_events("order_book", pair, IntParam(depth),
                                       order_book_get_channel(pair, depth), event_handler)
    /\ UNCHANGED <<facade, rest_vars, order_vars, view, cache_vars, stream_vars, pair_call>>

SubscribeToTradeEvents(pair, event_handler) ==
    /\ Len(sub_log) < MaxSubs
    /\ _subscribe_to_ws_channel_events("trade", pair, NoParam,
                                       trades_get_channel(pair), event_handler)
    /\ UNCHANGED <<facade, rest_vars, order_vars, view, cache_vars, stream_vars, pair_call>>

subscribe_to_bar_events ==
    \E pair \in SubPairs, bar_duration \in BarDurations, event_handler \in Handlers :
        SubscribeToBarEvents(pair, bar_duration, event_handler)

subscribe_to_order_book_events ==
    \E pair \in SubPairs, event_handler \in Handlers, depth \in Depths :
        SubscribeToOrderBookEvents(pair, event_handler, depth)

subscribe_to_trade_events ==
    \E pair \in SubPairs, event_handler \in Handlers :
        SubscribeToTradeEvents(pair, event_handler)

(***************************************************************************)
(* Streaming: the venue, the websocket transport and the dispatcher        *)
(***************************************************************************)
RECURSIVE SumOver(_, _)
SumOver(f, S) ==
    IF S = {} THEN 0
    ELSE LET x == CHOOSE y \in S : TRUE IN f[x] + SumOver(f, S \ {x})

\* The venue emits the next event of a channel the client is subscribed to.
Emit(channel) ==
    /\ channel \in DOMAIN Registry(_websocket)
    /\ SumOver(emitted, Channels) < MaxEvents
    /\ emitted' = [emitted EXCEPT ![channel] = @ + 1]
    /\ pending' = [pending EXCEPT ![channel] = Append(@, emitted[channel] + 1)]
    /\ UNCHANGED <<facade, rest_vars, order_vars, view, cache_vars, mux_vars, received, last_dispatch, pair_call>>

\* One dispatch cycle: the oldest frame of the channel reaches the channel's
\* registered event source and the dispatcher calls that source's handlers,
\* in the order they were subscribed.
Dispatch(channel) ==
    /\ pending[channel] # <<>>
    /\ LET n == Head(pending[channel])
           event_source == Registry(_websocket)[channel]
           handlers == IF event_source \in DOMAIN event_handlers
                       THEN event_handlers[event_source] ELSE <<>>
       IN  /\ received' = [h \in Handlers |->
                              IF \E i \in 1..Len(handlers) : handlers[i] = h
                              THEN [received[h] EXCEPT ![channel] = Append(@, n)]
                              ELSE received[h]]
           /\ last_dispatch' = [channel |-> channel, n |-> n, order |-> handlers,
                                nsubs |-> Len(sub_log)]
    /\ pending' = [pending EXCEPT ![channel] = Tail(@)]
    /\ UNCHANGED <<facade, rest_vars, order_vars, view, cache_vars, mux_vars, emitted, pair_call>>

venue_emit == \E channel \in Channels : Emit(channel)
dispatch == \E channel \in Channels : Dispatch(channel)

(***************************************************************************)
(* FuturesExchange.get_pair: instrument resolution                         *)
(***************************************************************************)
ContractTypes == {"PERPETUAL", "CURRENT_QUARTER"}
Optional(S) == {<<>>} \cup {<<x>> : x \in S}

\* The three optional filters, applied in the order of the code.
GetPairMatches(symbols, symbol, pair, contract_type) ==
    LET by_pair == IF pair # <<>>
                   THEN SelectSeq(symbols, LAMBDA x : x.pair = pair[1])
                   ELSE symbols
        by_type == IF contract_type = <<>>
                   THEN by_pair
                   ELSE SelectSeq(by_pair, LAMBDA x : x.contractType = contract_type[1])
    IN  IF symbol = <<>>
        THEN by_type
        ELSE SelectSeq(by_type, LAMBDA x : x.symbol = symbol[1])

\* The first of several matches is handed back.
GetPairFirstMatch(symbols) ==
    IF ~(Len(symbols) > 0) THEN Failure("AssertionError")
    ELSE LET symbol_info == symbols[1]
         IN  Success(FuturesPair(symbol_info.symbol, symbol_info.baseAsset,
                                 symbol_info.quoteAsset, symbol_info.contractType,
                                 symbol_info.deliveryDate))

\* The two assertions on the filtered list and the FuturesPair built from
\* its only entry.
GetPairResult(symbols) ==
    IF ~(Len(symbols) > 0) THEN Failure("AssertionError")
    ELSE IF Len(symbols) # 1 THEN Failure("AssertionError")
    ELSE LET symbol_info == symbols[1]
         IN  Success(FuturesPair(symbol_info.symbol, symbol_info.baseAsset,
                                 symbol_info.quoteAsset, symbol_info.contractType,
                                 symbol_info.deliveryDate))

\* A catalog request is skipped once one has been made.
GetPairRequestsCached(reqs) == IF reqs = 0 THEN 1 ELSE reqs

\* await self._cli.get_exchange_info(): one request of the whole catalog,
\* whatever the arguments and whatever was asked before.
GetPairRequests(reqs) == reqs + 1

\* get_pair reads and writes no state of the facade. pair_call keeps the
\* last call, the number of calls made and of catalog requests issued.
GetPair(symbol, pair, contract_type, exchange_info) ==
    /\ facade = "FuturesExchange"
    /\ pair_call.n < MaxPairCalls
    /\ LET res == IF exchange_info.error THEN Failure("Error")
                  ELSE GetPairResult(GetPairMatches(exchange_info.symbols, symbol,
                                                    pair, contract_type))
       IN  pair_call' = [called |-> TRUE, symbol |-> symbol, pair |-> pair,
                         contract_type |-> contract_type,
                         exchange_info |-> exchange_info,
                         outcome |-> IF res.ok THEN "ok" ELSE res.error,
                         value |-> res.value,
                         n |-> pair_call.n + 1,
                         reqs |-> GetPairRequests(pair_call.reqs)]
    /\ UNCHANGED <<facade, rest_vars, order_vars, view, cache_vars, mux_vars, stream_vars>>

\* The first call takes any arguments; the calls after it repeat them.
get_pair ==
    \E symbol \in Optional({s.symbol : s \in FuturesSymbolInfos}),
       pair \in Optional({s.pair : s \in FuturesSymbolInfos}),
       contract_type \in Optional(ContractTypes),
       exchange_info \in Responses("FuturesExchange") :
        /\ pair_call.called =>
              /\ symbol = pair_call.symbol
              /\ pair = pair_call.pair
              /\ contract_type = pair_call.contract_type
        /\ GetPair(symbol, pair, contract_type, exchange_info)

(***************************************************************************)
(* The REST client of the facade and the limiter it is built with          *)
(***************************************************************************)
\* The limiter object handed to the facade's constructor.
GivenLimiter == <<"tb">>

\* The client built without the limiter it was given.
RestClientWithoutLimiter(f, tb) ==
    [class |-> IF f = "SpotExchange" THEN "APIClient" ELSE "FAPIClient", tb |-> <<>>]

\* __init__: self._cli = client.APIClient(..., tb=tb, ...) for a spot or
\* margin account, client.FAPIClient(..., tb=tb, ...) for USDT futures.
RestClient(f, tb) ==
    [class |-> IF f = "SpotExchange" THEN "APIClient" ELSE "FAPIClient", tb |-> tb]

\* The requests the facade and its futures account make, all on self._cli.
RestKinds(f) ==
    IF f = "SpotExchange"
    THEN {"get_exchange_info", "get_order_book"}
    ELSE {"get_exchange_info", "get_order_book", "get_account_information",
          "create_order", "query_order", "get_trades", "get_open_orders",
          "cancel_order"}

\* A request enters the client: it has to wait for the client's limiter,
\* when the client has one.
RestRequest(kind) ==
    /\ Len(rest) < MaxRestRequests
    /\ rest' = Append(rest, [kind |-> kind,
                             pc |-> IF _cli.tb = <<>> THEN "permitted" ELSE "waiting",
                             limiter |-> _cli.tb,
                             held_at_call |-> FALSE,
                             outcome |-> "none"])
    /\ UNCHANGED <<facade, exchanges, _cli, _tb, limiter, order_vars, view, cache_vars,
                   mux_vars, stream_vars, pair_call>>

\* acquire: the limiter lets the request through.
LimiterAcquire(i) ==
    /\ rest[i].pc = "waiting"
    /\ rest' = [rest EXCEPT ![i].pc = "permitted"]
    /\ limiter' = [limiter EXCEPT !.holders = @ \cup {i}, !.acquired = @ + 1]
    /\ UNCHANGED <<facade, exchanges, _cli, _tb, order_vars, view, cache_vars, mux_vars,
                   stream_vars, pair_call>>

\* The transport call is made.
TransportCall(i) ==
    /\ rest[i].pc = "permitted"
    /\ rest' = [rest EXCEPT ![i].pc = "calling",
                            ![i].held_at_call = i \in limiter.holders]
    /\ UNCHANGED <<facade, exchanges, _cli, _tb, limiter, order_vars, view, cache_vars,
                   mux_vars, stream_vars, pair_call>>

\* The transport call returns a payload or fails with the venue's Error;
\* either way the limiter is let go.
TransportReturn(i, ok) ==
    /\ rest[i].pc = "calling"
    /\ rest' = [rest EXCEPT ![i].pc = "done",
                            ![i].outcome = IF ok THEN "ok" ELSE "Error"]
    /\ limiter' = [limiter EXCEPT !.holders = @ \ {i},
                                  !.released = IF i \in limiter.holders
                                               THEN @ + 1 ELSE @]
    /\ UNCHANGED <<facade, exchanges, _cli, _tb, order_vars, view, cache_vars, mux_vars,
                   stream_vars, pair_call>>

rest_request == \E kind \in RestKinds(facade) : RestRequest(kind)
limiter_acquire == \E i \in 1..Len(rest) : LimiterAcquire(i)
transport_call == \E i \in 1..Len(rest) : TransportCall(i)
transport_return == \E i \in 1..Len(rest) : \E ok \in BOOLEAN : TransportReturn(i, ok)

(***************************************************************************)
(* Order submission (futures.py Account, futures_requests.py)              *)
(***************************************************************************)
\* Client order ids a caller may supply; <<>> is None.
ClientOrderIds == Optional({"a", "b"})

\* futures_requests.MarketOrder / LimitOrder / StopLimitOrder: the request
\* object keeps the client order id it was built with; type is the order
\* type its create_order submits.
MarketOrder(client_order_id) == [type |-> "MARKET", _client_order_id |-> client_order_id]
LimitOrder(client_order_id) == [type |-> "LIMIT", _client_order_id |-> client_order_id]
StopLimitOrder(client_order_id) == [type |-> "STOP", _client_order_id |-> client_order_id]

OrderRequests ==
    {MarketOrder(c) : c \in ClientOrderIds} \cup {LimitOrder(c) : c \in ClientOrderIds}
        \cup {StopLimitOrder(c) : c \in ClientOrderIds}

\* The submission leaves the client order id out.
TransportArgsWithoutClientId(order_request) ==
    [type |-> order_request.type, new_client_order_id |-> <<>>]

\* ExchangeOrder.create_order: the arguments of the one call of
\* futures_account_cli.create_order.
TransportArgs(order_request) ==
    [type |-> order_request.type, new_client_order_id |-> order_request._client_order_id]

\* Account.create_order up to its suspension point: the request object
\* submits itself to the transport and the coroutine awaits the answer.
\* method and supplied record the entry point and the id of the caller.
CreateOrder(method, supplied, order_request) ==
    /\ Len(order_calls) < MaxOrderCalls
    /\ order_calls' = Append(order_calls, [method |-> method, supplied |-> supplied,
                                           type |-> order_request.type,
                                           pc |-> "awaiting", outcome |-> "none"])
    /\ transport_orders' =
          Append(transport_orders,
                 [call |-> Len(order_calls) + 1,
                  type |-> TransportArgs(order_request).type,
                  new_client_order_id |-> TransportArgs(order_request).new_client_order_id])
    /\ UNCHANGED <<facade, rest_vars, info_vars, view, cache_vars, mux_vars, stream_vars,
                   pair_call>>

\* The transport answers: a payload, wrapped in a CreatedOrder, or the
\* venue's Error, which nothing catches.
CreateOrderReturn(i, ok) ==
    /\ order_calls[i].pc = "awaiting"
    /\ order_calls' = [order_calls EXCEPT ![i].pc = "done",
                                          ![i].outcome = IF ok THEN "CreatedOrder"
                                                         ELSE "Error"]
    /\ UNCHANGED <<facade, rest_vars, transport_orders, info_vars, view, cache_vars,
                   mux_vars, stream_vars, pair_call>>

create_order ==
    \E order_request \in OrderRequests :
        CreateOrder("create_order", order_request._client_order_id, order_request)

create_market_order ==
    \E client_order_id \in ClientOrderIds :
        CreateOrder("create_market_order", client_order_id, MarketOrder(client_order_id))

create_limit_order ==
    \E client_order_id \in ClientOrderIds :
        CreateOrder("create_limit_order", client_order_id, LimitOrder(client_order_id))

create_stop_limit_order ==
    \E client_order_id \in ClientOrderIds :
        CreateOrder("create_stop_limit_order", client_order_id,
                    StopLimitOrder(client_order_id))

create_order_return ==
    \E i \in 1..Len(order_calls) : \E ok \in BOOLEAN : CreateOrderReturn(i, ok)

NoView == [cls |-> "none"]

(***************************************************************************)
(* Payload views (common.py)                                               *)
(***************************************************************************)
\* Decimal(str) on the decimal strings the payloads below use. A Decimal is
\* kept as its exact number of tenths.
Decimal(str) ==
    CASE str = "0" -> 0
      [] str = "0.0" -> 0
      [] str = "0.5" -> 5
      [] str = "1" -> 10
      [] str = "2" -> 20
      [] str = "3" -> 30
      [] str = "9" -> 90

\* bool(Decimal): zero, with whatever exponent, is the only falsy value.
Truthy(dec) == dec # 0

RECURSIVE Gcd(_, _)
Gcd(a, b) == IF b = 0 THEN a ELSE Gcd(b, a % b)

\* Decimal / Decimal, for a non-zero divisor and non-negative operands: the
\* quotient as the fraction <<numerator, denominator>> in lowest terms.
DecimalDiv(a, b) == LET g == Gcd(a, b) IN <<a \div g, b \div g>>

\* Order status vocabulary and helpers.order_status_is_open.
OrderStatuses ==
    {"NEW", "PARTIALLY_FILLED", "PENDING", "FILLED", "CANCELED", "REJECTED", "EXPIRED"}

order_status_is_open(order_status) ==
    order_status \in {"NEW", "PARTIALLY_FILLED", "PENDING"}

\* List status vocabulary of order lists and helpers.oco_order_status_is_open.
ListOrderStatuses == {"EXECUTING", "ALL_DONE", "REJECT"}

oco_order_status_is_open(list_order_status) == list_order_status = "EXECUTING"

\* Order payloads: the fields the views read.
OrderJsons ==
    [status : OrderStatuses, origQty : {"2", "3"}, executedQty : {"0", "0.0", "2"},
     cummulativeQuoteQty : {"0", "9"}]

\* Trade payloads of an order and the Trade views over them.
TradeJsons == [commission : {"0", "0.5", "1"}, commissionAsset : {"BNB", "USDT"}]
Trade(json) == [json |-> json, commission |-> Decimal(json.commission),
                commission_asset |-> json.commissionAsset]
TradeLists == SeqsUpTo({Trade(j) : j \in TradeJsons}, MaxTrades)

\* Open while some of the amount is unfilled, whatever the status says.
OrderWrapperIsOpenByFill(json) == Decimal(json.executedQty) < Decimal(json.origQty)

\* OrderWrapper.is_open
OrderWrapperIsOpen(json) == order_status_is_open(json.status)

\* The amount, whatever was filled.
AmountRemainingUnfilled(amount, amount_filled) == amount

\* OrderInfo.amount_remaining
AmountRemaining(amount, amount_filled) == amount - amount_filled

\* The quotient taken also when nothing was filled, 0 standing for it.
FillPriceAlways(amount_filled, quote_amount_filled) ==
    IF amount_filled = 0 THEN <<<<0, 1>>>>
    ELSE <<DecimalDiv(quote_amount_filled, amount_filled)>>

\* OrderInfo.fill_price: <<>> is None.
FillPrice(amount_filled, quote_amount_filled) ==
    IF Truthy(amount_filled)
    THEN <<DecimalDiv(quote_amount_filled, amount_filled)>>
    ELSE <<>>

\* self._fees[asset] += commission on a defaultdict(Decimal), the dict kept
\* as its items in insertion order: a missing key is inserted as Decimal()
\* at the end, then added to.
FeesAdd(fees, asset, commission) ==
    IF \E n \in 1..Len(fees) : fees[n].asset = asset
    THEN [n \in 1..Len(fees) |->
             IF fees[n].asset = asset
             THEN [asset |-> asset, amount |-> fees[n].amount + commission]
             ELSE fees[n]]
    ELSE Append(fees, [asset |-> asset, amount |-> 0 + commission])

\* Every trade is added, also one that cost nothing.
RECURSIVE OrderInfoFeesEveryTrade(_)
OrderInfoFeesEveryTrade(trades) ==
    IF trades = <<>> THEN <<>>
    ELSE LET trade == trades[Len(trades)]
             fees == OrderInfoFeesEveryTrade(SubSeq(trades, 1, Len(trades) - 1))
         IN  FeesAdd(fees, trade.commission_asset, trade.commission)

\* The loop of OrderInfo.__init__ over the trades, first to last.
RECURSIVE OrderInfoFees(_)
OrderInfoFees(trades) ==
    IF trades = <<>> THEN <<>>
    ELSE LET trade == trades[Len(trades)]
             fees == OrderInfoFees(SubSeq(trades, 1, Len(trades) - 1))
         IN  IF Truthy(trade.commission)
             THEN FeesAdd(fees, trade.commission_asset, trade.commission)
             ELSE fees

\* fees[asset] as a caller reads it: a key that is missing reads as Decimal().
FeesGetItem(fees, asset) ==
    LET found == SelectSeq(fees, LAMBDA item : item.asset = asset)
    IN  IF found = <<>> THEN 0 ELSE found[1].amount

\* OrderInfo(json, trades) and what its properties return.
OrderInfoInit(json, trades) ==
    /\ view.cls = "none"
    /\ view' = [cls |-> "OrderInfo", json |-> json, trades |-> trades,
                _fees |-> OrderInfoFees(trades),
                status |-> <<json.status>>,
                is_open |-> OrderWrapperIsOpen(json),
                amount |-> Decimal(json.origQty),
                amount_filled |-> Decimal(json.executedQty),
                quote_amount_filled |-> Decimal(json.cummulativeQuoteQty),
                amount_remaining |-> AmountRemaining(Decimal(json.origQty),
                                                     Decimal(json.executedQty)),
                fill_price |-> FillPrice(Decimal(json.executedQty),
                                         Decimal(json.cummulativeQuoteQty))]
    /\ UNCHANGED <<facade, rest_vars, order_vars, cache_vars, mux_vars, stream_vars,
                   pair_call>>

\* OpenOrder(json) / CanceledOrder(json): OrderWrapper's properties.
OrderWrapperInit(cls, json) ==
    /\ view.cls = "none"
    /\ view' = [cls |-> cls, json |-> json,
                status |-> <<json.status>>,
                is_open |-> OrderWrapperIsOpen(json),
                amount |-> Decimal(json.origQty),
                amount_filled |-> Decimal(json.executedQty),
                quote_amount_filled |-> Decimal(json.cummulativeQuoteQty)]
    /\ UNCHANGED <<facade, rest_vars, order_vars, cache_vars, mux_vars, stream_vars,
                   pair_call>>

\* CreatedOrder.is_open: the status is asserted to be there.
CreatedOrderIsOpen(status) ==
    IF status = <<>> THEN Failure("AssertionError")
    ELSE Success(order_status_is_open(status[1]))

\* CreatedOrder(json): an ACK response carries no status.
CreatedOrderInit(status) ==
    /\ view.cls = "none"
    /\ view' = [cls |-> "CreatedOrder", status |-> status,
                is_open |-> CreatedOrderIsOpen(status)]
    /\ UNCHANGED <<facade, rest_vars, order_vars, cache_vars, mux_vars, stream_vars,
                   pair_call>>

\* str(int) on the order ids used below.
Str(n) == CASE n = 1 -> "1" [] n = 2 -> "2"

\* The leg reports of an order list.
LegTypes == {"LIMIT", "LIMIT_MAKER", "STOP_LOSS", "STOP_LOSS_LIMIT", "MARKET"}
OrderReports == SeqsUpTo([orderId : {1, 2}, type : LegTypes], MaxLegs)

\* Order list payloads: orderReports is <<>> when the key is missing.
OCOJsons == [listOrderStatus : ListOrderStatuses, orderReports : Optional(OrderReports)]

\* self.json.get("orderReports", [])
GetOrderReports(json) == IF json.orderReports = <<>> THEN <<>> ELSE json.orderReports[1]

\* order_ids[0]
FirstOrderId(order_ids) ==
    IF order_ids = <<>> THEN Failure("IndexError") ELSE Success(order_ids[1])

\* The id of the first leg report, whatever its type.
FirstLegOrderId(json) ==
    LET reports == GetOrderReports(json)
    IN  FirstOrderId([n \in 1..Len(reports) |-> Str(reports[n].orderId)])

\* OCOOrderWrapper.limit_order_id
LimitOrderId(json) ==
    LET legs == SelectSeq(GetOrderReports(json),
                          LAMBDA order : order.type \in {"LIMIT", "LIMIT_MAKER"})
    IN  FirstOrderId([n \in 1..Len(legs) |-> Str(legs[n].orderId)])

\* OCOOrderWrapper.stop_loss_order_id
StopLossOrderId(json) ==
    LET legs == SelectSeq(GetOrderReports(json),
                          LAMBDA order : order.type \in {"STOP_LOSS", "STOP_LOSS_LIMIT"})
    IN  FirstOrderId([n \in 1..Len(legs) |-> Str(legs[n].orderId)])

\* CreatedOCOOrder / OCOOrderInfo / CanceledOCOOrder (json).
OCOOrderWrapperInit(cls, json) ==
    /\ view.cls = "none"
    /\ view' = [cls |-> cls, json |-> json,
                is_open |-> oco_order_status_is_open(json.listOrderStatus),
                limit_order_id |-> LimitOrderId(json),
                stop_loss_order_id |-> StopLossOrderId(json)]
    /\ UNCHANGED <<facade, rest_vars, order_vars, cache_vars, mux_vars, stream_vars,
                   pair_call>>

order_info_init ==
    /\ view.cls = "none"
    /\ \E json \in OrderJsons, trades \in TradeLists : OrderInfoInit(json, trades)

order_wrapper_init ==
    /\ view.cls = "none"
    /\ \E cls \in {"OpenOrder", "CanceledOrder"}, json \in OrderJsons :
          OrderWrapperInit(cls, json)

created_order_init ==
    /\ view.cls = "none"
    /\ \E status \in Optional(OrderStatuses) : CreatedOrderInit(status)

oco_order_wrapper_init ==
    /\ view.cls = "none"
    /\ \E cls \in {"CreatedOCOOrder", "OCOOrderInfo", "CanceledOCOOrder"}, json \in OCOJsons :
          OCOOrderWrapperInit(cls, json)

\* json[key] on a payload whose keys may be missing (a missing key is <<>>).
KeyError(key) == [ok |-> FALSE, error |-> "KeyError", key |-> key, value |-> <<>>]
GetItem(json, key) == IF json[key] = <<>> THEN KeyError(key) ELSE Success(json[key][1])

\* The values of orderListId in a payload: JSON null or a number; -1 is the
\* venue's "not part of an order list".
Null == [null |-> TRUE, n |-> 0]
Num(n) == [null |-> FALSE, n |-> n]
OrderListIds == {Null, Num(0 - 1), Num(1), Num(2)}
OrderListIdJsons == [orderListId : Optional(OrderListIds)]

\* str(ret) on an orderListId value; str(None) is "None".
StrOf(ret) == IF ret.null THEN "None" ELSE Str(ret.n)

\* self.json.get("orderListId"): None for a missing key.
GetOrderListId(json) == IF json.orderListId = <<>> THEN Null ELSE json.orderListId[1]

\* OrderWrapper.order_list_id, futures Trade.order_list_id and futures
\* OpenOrder.order_list_id: ret = json.get(...); None if ret in [None, -1].
OrderWrapperOrderListId(json) ==
    LET ret == GetOrderListId(json)
    IN  IF ret \in {Null, Num(0 - 1)} THEN Success(<<>>) ELSE Success(<<StrOf(ret)>>)

\* futures CreatedOrder.order_list_id: ret = json["orderListId"]; None if
\* ret == -1 else str(ret).
FuturesCreatedOrderOrderListId(json) ==
    LET ret == GetItem(json, "orderListId")
    IN  IF ~ret.ok THEN ret
        ELSE IF ret.value[1] = Num(0 - 1) THEN Success(<<>>)
        ELSE Success(<<StrOf(ret.value[1])>>)

\* The views that expose order_list_id.
OrderListIdViews ==
    {"OrderInfo", "OpenOrder", "CanceledOrder", "futures.Trade", "futures.OpenOrder",
     "futures.CreatedOrder"}

OrderListId(on, json) ==
    IF on = "futures.CreatedOrder" THEN FuturesCreatedOrderOrderListId(json)
    ELSE OrderWrapperOrderListId(json)

\* A view is built over the payload and its order_list_id is read.
OrderListIdRead(on, json) ==
    /\ view.cls = "none"
    /\ view' = [cls |-> "order_list_id", on |-> on, json |-> json,
                order_list_id |-> OrderListId(on, json)]
    /\ UNCHANGED <<facade, rest_vars, order_vars, cache_vars, mux_vars, stream_vars,
                   pair_call>>

\* Order payloads in which any of the identity and amount keys may be missing.
AccessorJsons ==
    [orderId : Optional({1, 2}), origQty : Optional({"0", "2"}),
     executedQty : Optional({"0", "2"}), cummulativeQuoteQty : Optional({"0", "9"})]

\* str(self.json["orderId"])
OrderId(json) ==
    LET ret == GetItem(json, "orderId")
    IN  IF ret.ok THEN Success(Str(ret.value[1])) ELSE ret

\* A required amount that reads as zero when its key is missing.
RequiredDecimalDefaulted(json, key) ==
    IF json[key] = <<>> THEN Success(0) ELSE Success(Decimal(json[key][1]))

\* Decimal(self.json[key])
RequiredDecimal(json, key) ==
    LET ret == GetItem(json, key)
    IN  IF ret.ok THEN Success(Decimal(ret.value[1])) ELSE ret

\* helpers.get_optional_decimal(json, key, skip_zero): no value for a missing
\* key, and for zero when skip_zero is set.
get_optional_decimal(json, key, skip_zero) ==
    IF json[key] = <<>> THEN Success(<<>>)
    ELSE LET value == Decimal(json[key][1])
         IN  IF Truthy(value) \/ ~skip_zero THEN Success(<<value>>) ELSE Success(<<>>)

\* The order views built over a payload of AccessorJsons.
OrderWrapperViews == {"OrderInfo", "OpenOrder", "CanceledOrder"}
AccessorViews == OrderWrapperViews \cup {"CreatedOrder"}

\* amount, amount_filled and quote_amount_filled of a view, by payload key.
AmountAccessor(on, json, key) ==
    IF on = "CreatedOrder" THEN get_optional_decimal(json, key, FALSE)
    ELSE RequiredDecimal(json, key)

\* A view is built over the payload and its identity and amount accessors
\* are read.
AccessorsRead(on, json) ==
    /\ view.cls = "none"
    /\ view' = [cls |-> "accessors", on |-> on, json |-> json,
                id |-> OrderId(json),
                amount |-> AmountAccessor(on, json, "origQty"),
                amount_filled |-> AmountAccessor(on, json, "executedQty"),
                quote_amount_filled |-> AmountAccessor(on, json, "cummulativeQuoteQty")]
    /\ UNCHANGED <<facade, rest_vars, order_vars, cache_vars, mux_vars, stream_vars,
                   pair_call>>

order_list_id_read ==
    /\ view.cls = "none"
    /\ \E on \in OrderListIdViews, json \in OrderListIdJsons : OrderListIdRead(on, json)

accessors_read ==
    /\ view.cls = "none"
    /\ \E on \in AccessorViews, json \in AccessorJsons : AccessorsRead(on, json)

\* collections.defaultdict(Decimal).__getitem__ on a missing key: the key is
\* inserted with Decimal(), which is 0, before the value is returned.
DefaultDictGetItem(fees, asset) ==
    IF \E n \in 1..Len(fees) : fees[n].asset = asset
    THEN fees
    ELSE Append(fees, [asset |-> asset, amount |-> 0])

\* order_info.fees[asset]: fees returns the defaultdict itself, so the lookup
\* acts on the view's own _fees.
OrderInfoFeesGetItem(asset) ==
    /\ view.cls = "OrderInfo"
    /\ view' = [view EXCEPT !._fees = DefaultDictGetItem(@, asset)]
    /\ UNCHANGED <<facade, rest_vars, order_vars, cache_vars, mux_vars, stream_vars,
                   pair_call>>

\* The other accessors of an OrderInfo are read: each is computed again from
\* self.json.
OrderInfoRead ==
    /\ view.cls = "OrderInfo"
    /\ view' = [view EXCEPT
                !.status = <<view.json.status>>,
                !.is_open = OrderWrapperIsOpen(view.json),
                !.amount = Decimal(view.json.origQty),
                !.amount_filled = Decimal(view.json.executedQty),
                !.quote_amount_filled = Decimal(view.json.cummulativeQuoteQty),
                !.amount_remaining = AmountRemaining(Decimal(view.json.origQty),
                                                     Decimal(view.json.executedQty)),
                !.fill_price = FillPrice(Decimal(view.json.executedQty),
                                         Decimal(view.json.cummulativeQuoteQty))]
    /\ UNCHANGED <<facade, rest_vars, order_vars, cache_vars, mux_vars, stream_vars,
                   pair_call>>

order_info_fees_getitem ==
    /\ view.cls = "OrderInfo"
    /\ \E asset \in {"BNB", "USDT"} : OrderInfoFeesGetItem(asset)

(***************************************************************************)
(* Account.get_order_info (futures.py)                                     *)
(***************************************************************************)
\* The orders the venue holds for the account, each with its client order id.
VenueOrders == {1, 2}
ClientOrderIdOf(order) == CASE order = 1 -> "c1" [] order = 2 -> "c2"

\* int(order_id)
int(str) == CASE str = "1" -> 1 [] str = "2" -> 2

\* A filled quantity as the venue writes it.
QtyStr(n) == CASE n = 0 -> "0" [] n = 1 -> "1" [] n = 2 -> "2" [] n = 3 -> "3"

\* Either order_id or client_order_id is set, but not both.
OrderLookups ==
    {[order_id |-> <<Str(o)>>, client_order_id |-> <<>>] : o \in VenueOrders} \cup
    {[order_id |-> <<>>, client_order_id |-> <<ClientOrderIdOf(o)>>] : o \in VenueOrders}

\* The order a lookup names.
LookedUp(order_id, orig_client_order_id) ==
    IF order_id # <<>> THEN order_id[1]
    ELSE CHOOSE o \in VenueOrders : ClientOrderIdOf(o) = orig_client_order_id[1]

\* The venue's answer to query_order and to get_trades at this moment: every
\* fill of an order is one trade of quantity 1.
VenueOrderInfo(order, fills) ==
    [orderId |-> order, clientOrderId |-> ClientOrderIdOf(order),
     status |-> IF fills[order] = 0 THEN "NEW" ELSE "PARTIALLY_FILLED",
     origQty |-> "3", executedQty |-> QtyStr(fills[order]),
     cummulativeQuoteQty |-> QtyStr(fills[order])]
VenueTrades(order, fills) ==
    [k \in 1..fills[order] |->
        [id |-> k, orderId |-> order, qty |-> "1", commission |-> "0.5",
         commissionAsset |-> "USDT"]]

\* Trade.amount
TradeAmount(trade) == Decimal(trade.json.qty)

\* The trades request keyed by the order_id argument of get_order_info.
TradesOrderIdFromArgument(order_info, order_id) ==
    IF order_id = <<>> THEN 0 ELSE int(order_id[1])

\* order_id=order_info["orderId"]
TradesOrderId(order_info, order_id) == order_info.orderId

\* OrderInfo(order_info, trades)
OrderInfo(order_info, trades) ==
    [json |-> order_info, trades |-> trades, _fees |-> OrderInfoFees(trades),
     amount |-> Decimal(order_info.origQty),
     amount_filled |-> Decimal(order_info.executedQty)]

\* get_order_info runs up to its first await: the order query is sent.
GetOrderInfo(order_id, client_order_id, include_trades) ==
    /\ Len(info_calls) < MaxInfoCalls
    /\ info_calls' = Append(info_calls,
                            [order_id |-> order_id, client_order_id |-> client_order_id,
                             include_trades |-> include_trades, pc |-> "query_order",
                             order_info |-> <<>>, outcome |-> "none", result |-> <<>>])
    /\ info_requests' =
          Append(info_requests,
                 [call |-> Len(info_calls) + 1, kind |-> "query_order",
                  order_id |-> IF order_id = <<>> THEN <<>> ELSE <<int(order_id[1])>>,
                  orig_client_order_id |-> client_order_id])
    /\ UNCHANGED <<facade, rest_vars, order_calls, transport_orders, venue_fills, view,
                   cache_vars, mux_vars, stream_vars, pair_call>>

\* The order query is answered. An Error ends the call; otherwise the call
\* goes on to its return, or, with include_trades, to the trades request.
QueryOrderReturn(i, ok) ==
    LET call == info_calls[i]
        request == CHOOSE r \in {info_requests[n] : n \in 1..Len(info_requests)} :
                       r.call = i /\ r.kind = "query_order"
        order_info == VenueOrderInfo(LookedUp(request.order_id,
                                              request.orig_client_order_id),
                                     venue_fills)
    IN  /\ call.pc = "query_order"
        /\ IF ~ok
           THEN /\ info_calls' = [info_calls EXCEPT ![i].pc = "done",
                                                    ![i].outcome = "Error"]
                /\ UNCHANGED info_requests
           ELSE IF call.include_trades
           THEN /\ info_calls' = [info_calls EXCEPT ![i].pc = "get_trades",
                                                    ![i].order_info = <<order_info>>]
                /\ info_requests' =
                      Append(info_requests,
                             [call |-> i, kind |-> "get_trades",
                              order_id |-> <<TradesOrderId(order_info, call.order_id)>>,
                              orig_client_order_id |-> <<>>])
           ELSE /\ info_calls' = [info_calls EXCEPT
                                  ![i].pc = "done", ![i].outcome = "OrderInfo",
                                  ![i].order_info = <<order_info>>,
                                  ![i].result = <<OrderInfo(order_info, <<>>)>>]
                /\ UNCHANGED info_requests
        /\ UNCHANGED <<facade, rest_vars, order_calls, transport_orders, venue_fills,
                       view, cache_vars, mux_vars, stream_vars, pair_call>>

\* The trades request is answered and the call returns.
GetTradesReturn(i, ok) ==
    LET call == info_calls[i]
        request == CHOOSE r \in {info_requests[n] : n \in 1..Len(info_requests)} :
                       r.call = i /\ r.kind = "get_trades"
        answer == IF request.order_id[1] \in VenueOrders
                  THEN VenueTrades(request.order_id[1], venue_fills) ELSE <<>>
        trades == [n \in 1..Len(answer) |-> Trade(answer[n])]
    IN  /\ call.pc = "get_trades"
        /\ info_calls' =
              IF ok
              THEN [info_calls EXCEPT ![i].pc = "done", ![i].outcome = "OrderInfo",
                                      ![i].result = <<OrderInfo(call.order_info[1], trades)>>]
              ELSE [info_calls EXCEPT ![i].pc = "done", ![i].outcome = "Error"]
        /\ UNCHANGED <<facade, rest_vars, order_calls, transport_orders, info_requests,
                       venue_fills, view, cache_vars, mux_vars, stream_vars, pair_call>>

\* The venue fills one unit of an order.
VenueFill(order) ==
    /\ SumOver(venue_fills, VenueOrders) < MaxFills
    /\ venue_fills' = [venue_fills EXCEPT ![order] = @ + 1]
    /\ UNCHANGED <<facade, rest_vars, order_calls, transport_orders, info_calls,
                   info_requests, view, cache_vars, mux_vars, stream_vars, pair_call>>

get_order_info ==
    \E lookup \in OrderLookups, include_trades \in BOOLEAN :
        GetOrderInfo(lookup.order_id, lookup.client_order_id, include_trades)

query_order_return ==
    \E i \in 1..Len(info_calls) : \E ok \in BOOLEAN : QueryOrderReturn(i, ok)

get_trades_return ==
    \E i \in 1..Len(info_calls) : \E ok \in BOOLEAN : GetTradesReturn(i, ok)

venue_fill == \E order \in VenueOrders : VenueFill(order)

(***************************************************************************)
(* Exchange.create (exchange.py) and BinanceAccountType (common.py)        *)
(***************************************************************************)
BinanceAccountType == {"SPOT", "MARGIN", "ISOLATED_MARGIN", "USDT_FUTURE", "COIN_FUTURE"}
is_spot_or_margin(account_type) == account_type \in {"SPOT", "MARGIN", "ISOLATED_MARGIN"}
is_futures(account_type) == account_type \in {"USDT_FUTURE", "COIN_FUTURE"}

\* SpotExchange.__init__
SpotExchangeInit(tb, account_type, testnet) ==
    IF is_spot_or_margin(account_type)
    THEN Success([class |-> "SpotExchange", _account_type |-> account_type,
                  _cli |-> RestClient("SpotExchange", tb),
                  api_type |-> IF testnet THEN "api_testnet" ELSE "api"])
    ELSE Failure("ValueError")

\* FuturesExchange.__init__
FuturesExchangeInit(tb, account_type, testnet) ==
    IF account_type = "USDT_FUTURE"
    THEN Success([class |-> "FuturesExchange", _account_type |-> account_type,
                  _cli |-> RestClient("FuturesExchange", tb),
                  api_type |-> IF testnet THEN "fapi_testnet" ELSE "fapi"])
    ELSE Failure("ValueError")

\* Exchange.create
ExchangeCreate(tb, account_type, testnet) ==
    IF is_spot_or_margin(account_type) THEN SpotExchangeInit(tb, account_type, testnet)
    ELSE IF is_futures(account_type) THEN FuturesExchangeInit(tb, account_type, testnet)
    ELSE Failure("ValueError")

Create(tb, account_type, testnet) ==
    /\ Len(exchanges) < MaxCreates
    /\ exchanges' = Append(exchanges, [account_type |-> account_type, testnet |-> testnet,
                                   tb |-> tb,
                                   result |-> ExchangeCreate(tb, account_type, testnet)])
    /\ UNCHANGED <<facade, _cli, _tb, rest, limiter, order_vars, view, cache_vars,
                   mux_vars, stream_vars, pair_call>>

create ==
    \E tb \in Optional({"tb"}), account_type \in BinanceAccountType, testnet \in BOOLEAN :
        Create(tb, account_type, testnet)

(***************************************************************************)
(* Specifications                                                          *)
(***************************************************************************)
Init ==
    /\ facade \in Facades
    /\ _pair_info_cache = <<>>
    /\ calls = <<>>
    /\ requests = [p \in PairsOf(facade) |-> 0]
    /\ clock = 0
    /\ _websocket = 0
    /\ ws_created = 0
    /\ channel_event_sources = <<>>
    /\ src_created = [k \in Channels |-> 0]
    /\ event_handlers = <<>>
    /\ sub_log = <<>>
    /\ last_call = [kind |-> "none", pair |-> Pair("", ""), param |-> NoParam,
                    handler |-> "", raised |-> FALSE]
    /\ emitted = [k \in Channels |-> 0]
    /\ pending = [k \in Channels |-> <<>>]
    /\ received = [h \in Handlers |-> [k \in Channels |-> <<>>]]
    /\ last_dispatch = [channel |-> "", n |-> 0, order |-> <<>>, nsubs |-> 0]
    /\ pair_call = [called |-> FALSE, symbol |-> <<>>, pair |-> <<>>,
                    contract_type |-> <<>>,
                    exchange_info |-> [error |-> FALSE, symbols |-> <<>>],
                    outcome |-> "none", value |-> <<>>, n |-> 0, reqs |-> 0]
    /\ _tb = GivenLimiter
    /\ _cli = RestClient(facade, GivenLimiter)
    /\ rest = <<>>
    /\ limiter = [holders |-> {}, acquired |-> 0, released |-> 0]
    /\ exchanges = <<>>
    /\ order_calls = <<>>
    /\ transport_orders = <<>>
    /\ info_calls = <<>>
    /\ info_requests = <<>>
    /\ venue_fills = [order \in VenueOrders |-> 0]
    /\ view = NoView

\* get_pair_info calls, overlapping at their suspension point.
\* get_pair_info is called with the FuturesPair the last get_pair returned.
get_pair_info_of_pair ==
    /\ pair_call.outcome = "ok"
    /\ GetPairInfoCall(pair_call.value[1])

\* The venue answers it with the catalog it answered get_pair with.
get_pair_info_return_same_catalog ==
    \E i \in 1..Len(calls) : GetPairInfoReturn(i, pair_call.exchange_info)

NextCache ==
    \/ get_pair_info_call
    \/ get_pair_info_return

\* Subscriptions alone.
NextMux ==
    \/ subscribe_to_bar_events
    \/ subscribe_to_order_book_events
    \/ subscribe_to_trade_events

\* Subscriptions with events flowing. Only subscribe calls that succeed are
\* taken: a failed one leaves the channels as they are.
NextStream ==
    \/ /\ Len(sub_log) < MaxStreamSubs
       /\ \E pair \in SubPairs, event_handler \in Handlers :
            \E bar_duration \in {d \in BarDurations : BarInterval(d) # <<>>} :
                SubscribeToBarEvents(pair, bar_duration, event_handler)
    \/ Len(sub_log) < MaxStreamSubs /\ subscribe_to_order_book_events
    \/ Len(sub_log) < MaxStreamSubs /\ subscribe_to_trade_events
    \/ venue_emit
    \/ dispatch

NextPair == get_pair

Next == NextCache \/ NextMux \/ venue_emit \/ dispatch \/ NextPair

SpecCache == Init /\ [][NextCache]_vars
SpecMux == Init /\ [][NextMux]_vars
SpecStream == Init /\ [][NextStream]_vars
SpecPair == Init /\ [][NextPair]_vars

\* An instrument is resolved with get_pair and its info asked for.
NextRoundTrip ==
    \/ get_pair
    \/ get_pair_info_of_pair
    \/ get_pair_info_return_same_catalog

SpecRoundTrip == Init /\ [][NextRoundTrip]_vars

\* Requests going through the REST client, overlapping freely.
NextRest ==
    \/ rest_request
    \/ limiter_acquire
    \/ transport_call
    \/ transport_return

SpecRest == Init /\ [][NextRest]_vars

\* Facades are made with Exchange.create.
NextCreate == create

SpecCreate == Init /\ [][NextCreate]_vars

\* Order submissions of one futures account, overlapping freely.
NextOrders ==
    \/ create_order
    \/ create_market_order
    \/ create_limit_order
    \/ create_stop_limit_order
    \/ create_order_return

SpecOrders == Init /\ [][NextOrders]_vars

\* Order queries of one futures account, overlapping freely, while the venue
\* fills the orders.
NextInfo ==
    \/ get_order_info
    \/ query_order_return
    \/ get_trades_return
    \/ venue_fill

SpecInfo == Init /\ [][NextInfo]_vars

\* One payload view is built and read.
NextViews ==
    \/ order_info_init
    \/ order_wrapper_init
    \/ created_order_init
    \/ oco_order_wrapper_init
    \/ order_list_id_read
    \/ accessors_read

SpecViews == Init /\ [][NextViews]_vars

\* One OrderInfo is built and then read any number of times.
NextReads ==
    \/ order_info_init
    \/ order_info_fees_getitem
    \/ OrderInfoRead

SpecReads == Init /\ [][NextReads]_vars
Spec == Init /\ [][Next]_vars

(***************************************************************************)
(* Properties of the pair-info cache                                       *)
(***************************************************************************)
CallIds == 1..Len(calls)
SamePair(i, j) == calls[i].pair = calls[j].pair
Returned(i) == calls[i].pc = "done"
Succeeded(i) == Returned(i) /\ calls[i].outcome = "ok"

\* Call j follows call i with nothing else going on for their pair: i has
\* returned successfully before j starts, and every other call for the pair
\* that started before j had returned before i started.
InSuccession(i, j) ==
    /\ i # j
    /\ SamePair(i, j)
    /\ Succeeded(i)
    /\ calls[i].end < calls[j].start
    /\ \A k \in CallIds \ {i, j} :
          (SamePair(k, i) /\ calls[k].start < calls[j].start)
              => (Returned(k) /\ calls[k].end < calls[i].start)

\* C1: when get_pair_info(p) is called twice in succession on one facade
\* (Spot or Futures), the second call starting after the first returned
\* successfully, the second call issues no request and returns the value the
\* first one returned and stored; the two calls issue at most one
\* get_exchange_info request together, and exactly one when no earlier call
\* had filled the cache for p.
C1_SecondLookupServedFromCache ==
    \A i, j \in CallIds :
        InSuccession(i, j) =>
            /\ calls[j].reqs = 0
            /\ Succeeded(j)
            /\ calls[j].end = calls[j].start
            /\ calls[j].value = calls[i].value
            /\ calls[j].pair \in DOMAIN _pair_info_cache
            /\ calls[i].reqs + calls[j].reqs <= 1
            /\ (~\E k \in CallIds : k # i /\ SamePair(k, i) /\ Succeeded(k)
                                     /\ calls[k].end < calls[i].start)
                   => calls[i].reqs + calls[j].reqs = 1

\* Two calls in succession for one pair, served by exactly one request.
C1_Witness ==
    \E i, j \in CallIds :
        /\ InSuccession(i, j)
        /\ calls[i].reqs = 1
        /\ calls[j].reqs = 0
        /\ requests[calls[i].pair] = 1

\* C2: one-shot population under every interleaving: as long as no request
\* for p has failed (a failed lookup is repeated by the next call), at most
\* one get_exchange_info request for p is ever issued, however many
\* get_pair_info(p) calls are made and however they overlap.
C2_AtMostOneRequestPerPair ==
    \A p \in DOMAIN requests :
        (\A i \in CallIds : calls[i].pair = p => calls[i].outcome \in {"none", "ok"})
            => requests[p] <= 1

\* The answer listed exactly one entry for the pair, with both filters.
Resolvable(answer) ==
    /\ ~answer.error
    /\ answer.found = 1
    /\ answer.complete

C10_State ==
    facade = "FuturesExchange" =>
        /\ \A i \in CallIds :
              (Returned(i) /\ calls[i].reqs = 1) =>
                  /\ Succeeded(i) <=> Resolvable(calls[i].answer[1])
                  /\ ~Succeeded(i) =>
                        /\ calls[i].value = <<>>
                        /\ calls[i].answer[1].error <=> calls[i].outcome = "Error"
                        /\ ~calls[i].answer[1].error <=> calls[i].outcome = "AssertionError"
        /\ \A p \in DOMAIN _pair_info_cache :
              \E i \in CallIds :
                  /\ calls[i].pair = p
                  /\ Succeeded(i)
                  /\ calls[i].reqs = 1
                  /\ Resolvable(calls[i].answer[1])

C10_Step ==
    facade = "FuturesExchange" =>
        \A i \in CallIds :
            (calls[i].pc = "awaiting" /\ calls'[i].pc = "done") =>
                IF Resolvable(calls'[i].answer[1])
                THEN /\ calls[i].pair \in DOMAIN _pair_info_cache'
                     /\ <<_pair_info_cache'[calls[i].pair]>> = calls'[i].value
                ELSE /\ _pair_info_cache' = _pair_info_cache
                     /\ (calls[i].pair \notin DOMAIN _pair_info_cache
                            => calls[i].pair \notin DOMAIN _pair_info_cache')

C11_CacheAppendOnly ==
    \A i \in CallIds :
        Succeeded(i) =>
            /\ calls[i].pair \in DOMAIN _pair_info_cache
            /\ calls[i].value = <<_pair_info_cache[calls[i].pair]>>
            /\ \A j \in CallIds :
                  (SamePair(i, j) /\ Succeeded(j)) => calls[j].value = calls[i].value

\* C15: get_pair_info neither swallows nor retries a failed
\* get_exchange_info: the call that awaited the request ends with the
\* client's error after that one request, returns no value, its return
\* leaves the cache as it was, and a call for the same pair started after
\* the failure, the cache still without an entry for the pair, issues a
\* request of its own.
C15_State ==
    \A i \in CallIds :
        (Returned(i) /\ calls[i].reqs = 1 /\ calls[i].answer[1].error) =>
            /\ calls[i].outcome = "Error"
            /\ calls[i].value = <<>>
            /\ requests[calls[i].pair] >= 1
            /\ \A j \in CallIds :
                  (/\ SamePair(i, j)
                   /\ calls[i].end < calls[j].start
                   /\ ~\E k \in CallIds : /\ SamePair(k, i)
                                          /\ Succeeded(k)
                                          /\ calls[k].end < calls[j].start)
                      => calls[j].reqs = 1

C15_Step ==
    \A i \in CallIds :
        (calls[i].pc = "awaiting" /\ calls'[i].pc = "done"
                                  /\ calls'[i].outcome = "Error") =>
            /\ _pair_info_cache' = _pair_info_cache
            /\ requests' = requests
            /\ calls'[i].reqs = 1

SubIds == 1..Len(sub_log)
SameRequest(i, j) ==
    /\ sub_log[i].kind = sub_log[j].kind
    /\ sub_log[i].pair = sub_log[j].pair
    /\ sub_log[i].param = sub_log[j].param

\* C3: at most one event source is ever created per channel key: the first
\* request for a key creates the source and registers it with the websocket
\* client, and every later request with the same (kind, pair, parameters)
\* resolves to that same source.
C3_OneSourcePerChannelKey ==
    /\ \A k \in Channels : src_created[k] <= 1
    /\ \A i, j \in SubIds : SameRequest(i, j) => sub_log[i].source = sub_log[j].source
    /\ \A i \in SubIds :
          /\ sub_log[i].channel \in DOMAIN Registry(_websocket)
          /\ Registry(_websocket)[sub_log[i].channel] = sub_log[i].source
          /\ src_created[sub_log[i].channel] = 1

\* The same request made twice, answered with one source.
C3_Witness ==
    \E i, j \in SubIds :
        /\ i < j
        /\ SameRequest(i, j)
        /\ sub_log[i].source = sub_log[j].source
        /\ src_created[sub_log[i].channel] = 1

C5_State ==
    /\ ws_created <= 1
    /\ _websocket = ws_created
    /\ _websocket = 0 <=> sub_log = <<>>
    /\ DOMAIN channel_event_sources \subseteq {_websocket}

C5_Step == _websocket # 0 => _websocket' = _websocket

\* C5: a facade owns at most one websocket client: none exists before the
\* first subscribe call that succeeds, that call builds it, every later
\* subscribe call on any channel reuses it, and the reference is never
\* replaced or reset.
C5_OneWebsocketClient == []C5_State /\ [][C5_Step]_vars

\* Two channels subscribed through the one client.
C5_Witness ==
    /\ Len(sub_log) = 2
    /\ sub_log[1].channel # sub_log[2].channel
    /\ ws_created = 1
    /\ DOMAIN Registry(_websocket) = {sub_log[1].channel, sub_log[2].channel}

\* Seconds of a symbolic duration token (a month, "1M", is 31 days).
TokenSeconds(token) ==
    CASE token = "1s" -> 1
      [] token = "1m" -> 60
      [] token = "3m" -> 3 * 60
      [] token = "5m" -> 5 * 60
      [] token = "15m" -> 15 * 60
      [] token = "30m" -> 30 * 60
      [] token = "1h" -> 3600
      [] token = "2h" -> 2 * 3600
      [] token = "4h" -> 4 * 3600
      [] token = "6h" -> 6 * 3600
      [] token = "8h" -> 8 * 3600
      [] token = "12h" -> 12 * 3600
      [] token = "1d" -> 86400
      [] token = "3d" -> 3 * 86400
      [] token = "1w" -> 7 * 86400
      [] token = "1M" -> 31 * 86400

DurationTokens == {"1s", "1m", "3m", "5m", "15m", "30m", "1h", "2h", "4h", "6h",
                   "8h", "12h", "1d", "3d", "1w", "1M"}

DurationSeconds(param) == IF param.type = "int" THEN param.n ELSE TokenSeconds(param.s)

\* C7: for every supported duration the numeric form in seconds and the
\* symbolic token resolve to the same interval, which is the token; so bar
\* subscriptions for one pair, one with the numeric and one with the symbolic
\* form of a duration, get the same channel key and share one event source.
C7_NumericAndSymbolicDurationsAgree ==
    /\ \A token \in DurationTokens :
          /\ BarInterval(StrParam(token)) = <<token>>
          /\ BarInterval(IntParam(TokenSeconds(token))) = BarInterval(StrParam(token))
    /\ \A i, j \in SubIds :
          (/\ sub_log[i].kind = "bar"
           /\ sub_log[j].kind = "bar"
           /\ sub_log[i].pair = sub_log[j].pair
           /\ DurationSeconds(sub_log[i].param) = DurationSeconds(sub_log[j].param))
              => /\ sub_log[i].channel = sub_log[j].channel
                 /\ sub_log[i].source = sub_log[j].source
                 /\ src_created[sub_log[i].channel] = 1

\* Bars of one pair subscribed as 60 and as "1m", on one source.
C7_Witness ==
    \E i, j \in SubIds :
        /\ sub_log[i].kind = "bar"
        /\ sub_log[j].kind = "bar"
        /\ sub_log[i].pair = sub_log[j].pair
        /\ sub_log[i].param = IntParam(60)
        /\ sub_log[j].param = StrParam("1m")
        /\ sub_log[i].source = sub_log[j].source

\* The keys of the duration table.
SupportedDurations == {e[1] : e \in BarIntervals}

C8_Step ==
    (last_call'.kind = "bar" /\ last_call'.param \notin SupportedDurations)
        => /\ last_call'.raised
           /\ UNCHANGED <<_websocket, ws_created, channel_event_sources, src_created,
                          event_handlers, sub_log>>

\* C8: subscribe_to_bar_events with a duration outside the duration table
\* ("2m", 7) fails at once, in the call itself, and leaves the facade as it
\* was: no websocket client is built, no event source is created or
\* registered, and no handler is subscribed with the dispatcher.
C8_BadDurationFailsBeforeSubscribing == [][C8_Step]_vars

\* A first subscribe call with duration "2m" has failed: nothing was built.
C8_Witness ==
    /\ last_call.kind = "bar"
    /\ last_call.param = StrParam("2m")
    /\ last_call.raised
    /\ _websocket = 0
    /\ ws_created = 0
    /\ sub_log = <<>>
    /\ event_handlers = <<>>

(***************************************************************************)
(* Properties of event delivery                                            *)
(***************************************************************************)
RECURSIVE Subscribers(_, _)
\* The handlers subscribed to a channel by the calls of a log, each once, in
\* the order of their first subscription.
Subscribers(channel, log) ==
    IF log = <<>> THEN <<>>
    ELSE LET before == Subscribers(channel, SubSeq(log, 1, Len(log) - 1))
             last == log[Len(log)]
         IN  IF last.channel = channel
                /\ ~\E i \in 1..Len(before) : before[i] = last.handler
             THEN Append(before, last.handler)
             ELSE before

HandlersOf(event_source) ==
    IF event_source \in DOMAIN event_handlers THEN event_handlers[event_source] ELSE <<>>

\* C4: every subscribe call registers its handler with the dispatcher
\* against the channel's shared event source, also when the source existed
\* already, so an event on the channel is delivered to every handler
\* subscribed to it, in the order in which the handlers subscribed.
C4_EveryHandlerOnSharedSourceInOrder ==
    /\ \A i \in SubIds :
          /\ sub_log[i].source = Registry(_websocket)[sub_log[i].channel]
          /\ \E n \in 1..Len(HandlersOf(sub_log[i].source)) :
                HandlersOf(sub_log[i].source)[n] = sub_log[i].handler
    /\ \A k \in DOMAIN Registry(_websocket) :
          HandlersOf(Registry(_websocket)[k]) = Subscribers(k, sub_log)
    /\ last_dispatch.channel # "" =>
          last_dispatch.order =
              Subscribers(last_dispatch.channel, SubSeq(sub_log, 1, last_dispatch.nsubs))

\* An event was delivered to two handlers, h2 first: h2 subscribed first.
C4_Witness ==
    /\ last_dispatch.order = <<"h2", "h1">>
    /\ Len(sub_log) = 2
    /\ sub_log[1].handler = "h2"
    /\ sub_log[2].handler = "h1"
    /\ sub_log[1].source = sub_log[2].source

Dispatched(channel) == emitted[channel] - Len(pending[channel])

\* The integers a+1 .. b as a sequence.
Run(a, b) == [n \in 1..(IF b > a THEN b - a ELSE 0) |-> a + n]

FirstSubscription(h, channel) ==
    {i \in SubIds : /\ sub_log[i].handler = h
                    /\ sub_log[i].channel = channel
                    /\ \A j \in 1..(i - 1) : ~(sub_log[j].handler = h
                                               /\ sub_log[j].channel = channel)}

\* C6: each handler subscribed to a channel is called with the events of
\* that channel in the order the venue emitted them, every event dispatched
\* since it subscribed and each once; a handler gets no event of a channel
\* it did not subscribe to. Nothing is said across channels.
C6_PerChannelEmissionOrder ==
    \A h \in Handlers : \A k \in Channels :
        /\ \A n \in 1..(Len(received[h][k]) - 1) :
              received[h][k][n + 1] = received[h][k][n] + 1
        /\ FirstSubscription(h, k) = {} => received[h][k] = <<>>
        /\ \A i \in FirstSubscription(h, k) :
              received[h][k] = Run(sub_log[i].at, Dispatched(k))

\* One handler got events 1 and 2 of a channel, a later subscriber only 2.
C6_Witness ==
    \E k \in Channels :
        /\ received["h1"][k] = <<1, 2>>
        /\ received["h2"][k] = <<2>>

(***************************************************************************)
(* Properties of get_pair                                                  *)
(***************************************************************************)
\* The catalog entries that satisfy every filter that was supplied.
Satisfying(symbols, symbol, pair, contract_type) ==
    {k \in 1..Len(symbols) :
        /\ symbol = <<>> \/ symbols[k].symbol = symbol[1]
        /\ pair = <<>> \/ symbols[k].pair = pair[1]
        /\ contract_type = <<>> \/ symbols[k].contractType = contract_type[1]}

\* C9: get_pair(symbol, pair, contract_type) returns the catalog instrument
\* when exactly one catalog entry satisfies every filter that was supplied
\* (an omitted filter matches everything), and fails, with an assertion,
\* when no entry or several entries match; it never returns one of several.
C9_GetPairExactlyOneMatch ==
    (pair_call.called /\ ~pair_call.exchange_info.error) =>
        LET symbols == pair_call.exchange_info.symbols
            found == Satisfying(symbols, pair_call.symbol, pair_call.pair,
                                pair_call.contract_type)
        IN  IF Cardinality(found) = 1
            THEN /\ pair_call.outcome = "ok"
                 /\ \A k \in found :
                       pair_call.value =
                           <<FuturesPair(symbols[k].symbol, symbols[k].baseAsset,
                                         symbols[k].quoteAsset, symbols[k].contractType,
                                         symbols[k].deliveryDate)>>
            ELSE /\ pair_call.outcome = "AssertionError"
                 /\ pair_call.value = <<>>

\* The delivery contract of a pair picked from a two-entry catalog by its
\* contract type.
C9_Witness ==
    /\ pair_call.called
    /\ pair_call.outcome = "ok"
    /\ pair_call.symbol = <<>>
    /\ pair_call.pair = <<"BTCUSDT">>
    /\ pair_call.contract_type = <<"CURRENT_QUARTER">>
    /\ Len(pair_call.exchange_info.symbols) = 2
    /\ pair_call.value[1].symbol = "BTCUSDT_Q"

\* C12 as the spec states it: however often get_pair is repeated with the
\* same (symbol, pair, contract_type), the facade issues the instrument
\* catalog request only once.
C12_GetPairCachedAsStated == pair_call.reqs <= 1

\* C12: FuturesExchange.get_pair keeps no cache: every call, a repetition
\* with the same (symbol, pair, contract_type) included, issues its own
\* get_exchange_info request, so n calls cost n catalog requests.
C12_GetPairRequestsEveryCall == pair_call.reqs = pair_call.n

\* get_pair was called twice with the same arguments, the second call
\* succeeded, and the catalog was requested for each of the two.
C12_Witness ==
    /\ pair_call.n = 2
    /\ pair_call.reqs = 2
    /\ pair_call.outcome = "ok"

(***************************************************************************)
(* Properties of the REST client                                           *)
(***************************************************************************)
RestIds == 1..Len(rest)

\* C13: every request made from the facade goes through the one limiter
\* the facade was given, acquire-then-call: the transport call is made only
\* by a request that holds the limiter, and a request that has ended, with
\* a payload or with an error, holds it no longer.
C13_AcquireThenCallThenRelease ==
    /\ _cli.tb = _tb
    /\ \A i \in RestIds :
          /\ rest[i].limiter = _tb
          /\ rest[i].limiter # <<>>
          /\ rest[i].pc = "calling" => i \in limiter.holders
          /\ rest[i].pc \in {"calling", "done"} => rest[i].held_at_call
          /\ rest[i].pc \in {"waiting", "done"} => i \notin limiter.holders
    /\ limiter.acquired - limiter.released = Cardinality(limiter.holders)

\* A request failed in the transport after acquiring the limiter, and the
\* limiter is free again.
C13_Witness ==
    \E i \in RestIds :
        /\ rest[i].pc = "done"
        /\ rest[i].outcome = "Error"
        /\ rest[i].held_at_call
        /\ limiter.holders = {}
        /\ limiter.released = 1

(***************************************************************************)
(* Properties of order submission                                          *)
(***************************************************************************)
OrderCallIds == 1..Len(order_calls)
SubmissionsOf(i) == {n \in 1..Len(transport_orders) : transport_orders[n].call = i}

MethodType(method) ==
    CASE method = "create_market_order" -> {"MARKET"}
      [] method = "create_limit_order" -> {"LIMIT"}
      [] method = "create_stop_limit_order" -> {"STOP"}
      [] method = "create_order" -> {"MARKET", "LIMIT", "STOP"}

\* C14: every call of create_market_order, create_limit_order,
\* create_stop_limit_order or create_order makes exactly one create_order
\* invocation on the transport, of the order type of the call and carrying
\* the client order id the caller supplied (none when none was supplied);
\* when the invocation fails the call ends with the error and there is
\* still that one invocation.
C14_State ==
    /\ Len(transport_orders) = Len(order_calls)
    /\ \A i \in OrderCallIds :
          /\ Cardinality(SubmissionsOf(i)) = 1
          /\ \A n \in SubmissionsOf(i) :
                /\ transport_orders[n].new_client_order_id = order_calls[i].supplied
                /\ transport_orders[n].type \in MethodType(order_calls[i].method)
          /\ order_calls[i].pc = "done" => order_calls[i].outcome \in {"CreatedOrder", "Error"}

C14_Step ==
    \A i \in OrderCallIds :
        (order_calls[i].pc = "awaiting" /\ order_calls'[i].pc = "done") =>
            transport_orders' = transport_orders

C14_SubmissionExactlyOnce == []C14_State /\ [][C14_Step]_vars

\* A limit order submitted with client order id "a" failed at the venue:
\* the error reached the caller and the transport saw one submission.
C14_Witness ==
    \E i \in OrderCallIds :
        /\ order_calls[i].method = "create_limit_order"
        /\ order_calls[i].supplied = <<"a">>
        /\ order_calls[i].outcome = "Error"
        /\ \E n \in SubmissionsOf(i) : transport_orders[n].new_client_order_id = <<"a">>

(***************************************************************************)
(* Properties of the payload views                                         *)
(***************************************************************************)
CommissionAsset(trades, n) == trades[n].json.commissionAsset
AssetsOf(trades) == {CommissionAsset(trades, n) : n \in 1..Len(trades)}

\* The commissions of the first n trades paid in the asset, summed.
RECURSIVE CommissionSum(_, _, _)
CommissionSum(trades, asset, n) ==
    IF n = 0 THEN 0
    ELSE CommissionSum(trades, asset, n - 1)
         + (IF CommissionAsset(trades, n) = asset
            THEN Decimal(trades[n].json.commission) ELSE 0)

\* The assets of the trades in counted, each once, in the order in which
\* they first occur there.
FirstOccurrences(trades, counted) ==
    LET firsts == SelectSeq([n \in 1..Len(trades) |-> n],
                            LAMBDA n : /\ n \in counted
                                       /\ \A m \in counted :
                                             m < n => CommissionAsset(trades, m)
                                                          # CommissionAsset(trades, n))
    IN  [k \in 1..Len(firsts) |-> CommissionAsset(trades, firsts[k])]

FeeKeys(fees) == [n \in 1..Len(fees) |-> fees[n].asset]
Charged(trades) == {n \in 1..Len(trades) : Decimal(trades[n].json.commission) # 0}

FeeSumsRight ==
    \A asset \in AssetsOf(view.trades) :
        FeesGetItem(view._fees, asset)
            = CommissionSum(view.trades, asset, Len(view.trades))

\* C16 as the spec states it: fees[asset] is the sum of the commissions
\* paid in the asset, for every asset of the trade list, and the assets are
\* kept in the order of their first occurrence in the trade list.
C16_FeesKeptInOrderOfFirstOccurrence ==
    view.cls = "OrderInfo" =>
        /\ FeeSumsRight
        /\ FeeKeys(view._fees) = FirstOccurrences(view.trades, 1..Len(view.trades))

\* C16: fees[asset] is the sum of the commissions paid in the asset, for
\* every asset of the trade list (an asset without an entry reads as 0);
\* the entries are the assets with at least one non-zero commission, in
\* the order of their first non-zero commission in the trade list.
C16_FeesKeptInOrderOfFirstCharge ==
    view.cls = "OrderInfo" =>
        /\ FeeSumsRight
        /\ FeeKeys(view._fees) = FirstOccurrences(view.trades, Charged(view.trades))
        /\ \A n \in 1..Len(view._fees) : view._fees[n].amount # 0

\* A free trade in BNB, then trades charged in USDT and in BNB: USDT comes
\* first in the fees, and BNB sums to the one commission paid in it.
C16_Witness ==
    /\ view.cls = "OrderInfo"
    /\ Len(view.trades) = 3
    /\ FeeKeys(view._fees) = <<"USDT", "BNB">>
    /\ FirstOccurrences(view.trades, 1..Len(view.trades)) = <<"BNB", "USDT">>
    /\ FeesGetItem(view._fees, "BNB") = 5

\* C17: fill_price of an OrderInfo has no value when amount_filled is 0,
\* and is quote_amount_filled / amount_filled when amount_filled is
\* greater than 0: 9 over 2 gives 4.5.
C17_FillPriceOnlyWhenFilled ==
    view.cls = "OrderInfo" =>
        LET filled == Decimal(view.json.executedQty)
            quote == Decimal(view.json.cummulativeQuoteQty)
        IN  /\ filled = 0 => view.fill_price = <<>>
            /\ filled > 0 =>
                  /\ view.fill_price # <<>>
                  /\ view.fill_price[1][2] > 0
                  /\ view.fill_price[1][1] * filled = view.fill_price[1][2] * quote
            /\ (view.json.executedQty = "2" /\ view.json.cummulativeQuoteQty = "9")
                  => view.fill_price = <<<<9, 2>>>>

\* 2 filled for 9 in quote units: the fill price is 9/2.
C17_Witness ==
    /\ view.cls = "OrderInfo"
    /\ view.amount_filled = Decimal("2")
    /\ view.quote_amount_filled = Decimal("9")
    /\ view.fill_price = <<<<9, 2>>>>

\* C18: amount_remaining of an OrderInfo is amount minus amount_filled,
\* the two as the same view exposes them from its payload.
C18_AmountRemaining ==
    view.cls = "OrderInfo" =>
        /\ view.amount_remaining = view.amount - view.amount_filled
        /\ view.amount_remaining
              = Decimal(view.json.origQty) - Decimal(view.json.executedQty)

\* An order for 3 with 2 filled has 1 remaining.
C18_Witness ==
    /\ view.cls = "OrderInfo"
    /\ view.json.origQty = "3"
    /\ view.json.executedQty = "2"
    /\ view.amount_remaining = Decimal("1")

OpenStatuses == {"NEW", "PARTIALLY_FILLED", "PENDING"}
ClosedStatuses == {"FILLED", "CANCELED", "REJECTED", "EXPIRED"}

\* C19: every order view maps its status by the one table: NEW,
\* PARTIALLY_FILLED and PENDING are open, FILLED, CANCELED, REJECTED and
\* EXPIRED are not, for OrderInfo, OpenOrder, CanceledOrder and
\* CreatedOrder alike; an order list maps its list status, not an order
\* status, by the table of the list vocabulary.
C19_StatusTable ==
    /\ view.cls \in {"OrderInfo", "OpenOrder", "CanceledOrder"} =>
          /\ view.json.status \in OpenStatuses => view.is_open
          /\ view.json.status \in ClosedStatuses => ~view.is_open
    /\ (view.cls = "CreatedOrder" /\ view.status # <<>>) =>
          /\ view.is_open.ok
          /\ view.status[1] \in OpenStatuses => view.is_open.value = <<TRUE>>
          /\ view.status[1] \in ClosedStatuses => view.is_open.value = <<FALSE>>
    /\ view.cls \in {"CreatedOCOOrder", "OCOOrderInfo", "CanceledOCOOrder"} =>
          (view.is_open <=> view.json.listOrderStatus = "EXECUTING")

\* A partially filled order whose amount is filled in full reads as open.
C19_Witness ==
    /\ view.cls = "CanceledOrder"
    /\ view.json.status = "PARTIALLY_FILLED"
    /\ view.amount_filled = view.amount
    /\ view.is_open

LegsOfType(json, types) ==
    {n \in 1..Len(GetOrderReports(json)) : GetOrderReports(json)[n].type \in types}
LimitTypes == {"LIMIT", "LIMIT_MAKER"}
StopTypes == {"STOP_LOSS", "STOP_LOSS_LIMIT"}

\* C20: for an order list with exactly one limit-type and one stop-type
\* leg report, limit_order_id is the id of the limit-type leg and
\* stop_loss_order_id the id of the stop-type leg; with no leg of the type
\* asked for, the leg reports missing altogether included, the lookup
\* fails.
C20_OcoLegLookup ==
    view.cls \in {"CreatedOCOOrder", "OCOOrderInfo", "CanceledOCOOrder"} =>
        LET reports == GetOrderReports(view.json)
            limits == LegsOfType(view.json, LimitTypes)
            stops == LegsOfType(view.json, StopTypes)
        IN  /\ (Cardinality(limits) = 1 /\ Cardinality(stops) = 1) =>
                  /\ \A n \in limits :
                        view.limit_order_id = Success(Str(reports[n].orderId))
                  /\ \A n \in stops :
                        view.stop_loss_order_id = Success(Str(reports[n].orderId))
            /\ limits = {} => ~view.limit_order_id.ok
            /\ stops = {} => ~view.stop_loss_order_id.ok

\* The stop leg is reported first: each lookup still finds its own leg.
C20_Witness ==
    /\ view.cls = "OCOOrderInfo"
    /\ GetOrderReports(view.json)
          = <<[orderId |-> 1, type |-> "STOP_LOSS_LIMIT"], [orderId |-> 2, type |-> "LIMIT_MAKER"]>>
    /\ view.limit_order_id = Success("2")
    /\ view.stop_loss_order_id = Success("1")

(***************************************************************************)
(* Properties of optional and required payload fields                      *)
(***************************************************************************)
\* C21: in every view that exposes order_list_id, a payload whose
\* orderListId is -1, null or missing reads as no value, and any other id
\* reads as that id as a string.
C21_OrderListIdSentinel ==
    view.cls = "order_list_id" =>
        LET field == view.json.orderListId
            unlisted == IF field = <<>> THEN TRUE ELSE field[1] \in {Null, Num(0 - 1)}
        IN  IF unlisted
            THEN view.order_list_id = Success(<<>>)
            ELSE view.order_list_id = Success(<<Str(field[1].n)>>)

\* The payload key an amount accessor reads, with what the accessor returned.
AmountReads(v) ==
    {<<"origQty", v.amount>>, <<"executedQty", v.amount_filled>>,
     <<"cummulativeQuoteQty", v.quote_amount_filled>>}

\* C22 as stated: on every order view, reading the order id or an amount
\* accessor over a payload that lacks the key fails with an error naming the
\* missing key.
C22_MissingKeyAlwaysFails ==
    view.cls = "accessors" =>
        /\ view.json.orderId = <<>> => view.id = KeyError("orderId")
        /\ \A read \in AmountReads(view) :
              view.json[read[1]] = <<>> => read[2] = KeyError(read[1])

\* C22: a missing orderId fails on every order view with an error naming the
\* key; a missing amount key fails the same way on the open, canceled and
\* order-info views, and reads as no value on the created-order view.
C22_MissingKeyFailsExceptCreatedAmounts ==
    view.cls = "accessors" =>
        /\ view.json.orderId = <<>> => view.id = KeyError("orderId")
        /\ \A read \in AmountReads(view) :
              view.json[read[1]] = <<>> =>
                  IF view.on = "CreatedOrder"
                  THEN read[2] = Success(<<>>)
                  ELSE read[2] = KeyError(read[1])

\* An open-order view over a payload without orderId and without origQty.
C22_Witness ==
    /\ view.cls = "accessors"
    /\ view.on = "OpenOrder"
    /\ view.json.orderId = <<>>
    /\ view.json.origQty = <<>>
    /\ view.id = KeyError("orderId")
    /\ view.amount = KeyError("origQty")

(***************************************************************************)
(* Properties of subscription setup                                        *)
(***************************************************************************)
\* C23: subscribe_to_order_book_events with a depth outside {5, 10, 20}
\* raises at subscribe time: the call registers no event source and
\* subscribes no handler.
C23_BadDepthFailsAtSubscribe ==
    /\ (last_call.kind = "order_book" /\ last_call.param.n \notin DocumentedDepths) =>
           last_call.raised
    /\ \A i \in 1..Len(sub_log) :
           sub_log[i].kind = "order_book" => sub_log[i].param.n \in DocumentedDepths

(***************************************************************************)
(* Properties of reading a view                                            *)
(***************************************************************************)
\* C24: reading the accessors of an OrderInfo any number of times, in any
\* order, leaves the payload and every accessor's result as they were when
\* the view was built, the fees included when an asset no trade paid
\* commission in is looked up.
C24_ReadsChangeNothing ==
    view.cls = "OrderInfo" =>
        /\ view._fees = OrderInfoFees(view.trades)
        /\ view.amount = Decimal(view.json.origQty)
        /\ view.amount_filled = Decimal(view.json.executedQty)
        /\ view.quote_amount_filled = Decimal(view.json.cummulativeQuoteQty)
        /\ view.is_open = OrderWrapperIsOpen(view.json)

(***************************************************************************)
(* Properties of the channel lifecycle                                     *)
(***************************************************************************)
\* The handlers subscribed to a source stay subscribed, in their order.
HandlersKept(old, new) ==
    \A s \in DOMAIN old :
        /\ s \in DOMAIN new
        /\ Len(old[s]) <= Len(new[s])
        /\ SubSeq(new[s], 1, Len(old[s])) = old[s]

C25_Step ==
    LET before == Registry(_websocket)
        after == Registry(_websocket')
    IN  /\ \A k \in DOMAIN before : k \in DOMAIN after /\ after[k] = before[k]
        /\ \A k \in DOMAIN after \ DOMAIN before :
              /\ src_created'[k] = src_created[k] + 1
              /\ Len(sub_log') = Len(sub_log) + 1
              /\ sub_log'[Len(sub_log')].channel = k
        /\ \A w \in DOMAIN channel_event_sources :
              /\ w \in DOMAIN channel_event_sources'
              /\ \A k \in DOMAIN channel_event_sources[w] :
                    /\ k \in DOMAIN channel_event_sources'[w]
                    /\ channel_event_sources'[w][k] = channel_event_sources[w][k]
        /\ HandlersKept(event_handlers, event_handlers')

\* C25: a channel becomes Active on the first subscribe for its key; once
\* Active it stays registered with the same event source, and no step
\* removes an event source or a subscribed handler.
C25_ChannelLifecycleMonotonic == [][C25_Step]_vars

\* Two channels Active one after the other: the first is still registered
\* with the source it got, after the subscribe that created the second.
C25_Witness ==
    /\ Len(sub_log) = 2
    /\ sub_log[1].channel # sub_log[2].channel
    /\ \A i \in {1, 2} :
          /\ sub_log[i].channel \in DOMAIN Registry(_websocket)
          /\ Registry(_websocket)[sub_log[i].channel] = sub_log[i].source
    /\ event_handlers[sub_log[1].source] = <<sub_log[1].handler>>

(***************************************************************************)
(* Properties of Account.get_order_info                                    *)
(***************************************************************************)
InfoCallIds == 1..Len(info_calls)
InfoRequestsOf(i) == SelectSeq(info_requests, LAMBDA r : r.call = i)

\* C26: a call sends one order query first; it sends one trades request
\* after it, keyed by the orderId of the order query's answer, exactly when
\* include_trades is true and the order query succeeded. Without
\* include_trades the returned OrderInfo has no trades and no fees.
C26_RequestsInFixedOrder ==
    \A i \in InfoCallIds :
        LET call == info_calls[i]
            sent == InfoRequestsOf(i)
            queried == call.order_info # <<>>
        IN  /\ Len(sent) \in {1, 2}
            /\ sent[1].kind = "query_order"
            /\ sent[1].orig_client_order_id = call.client_order_id
            /\ Len(sent) = 2 <=> (call.include_trades /\ queried)
            /\ Len(sent) = 2 =>
                  /\ sent[2].kind = "get_trades"
                  /\ sent[2].order_id = <<call.order_info[1].orderId>>
            /\ (call.pc = "done" /\ call.outcome = "OrderInfo" /\ ~call.include_trades) =>
                  /\ call.result[1].trades = <<>>
                  /\ call.result[1]._fees = <<>>
            /\ (call.pc = "done" /\ ~queried) => call.outcome = "Error"

\* Looked up by client order id with trades: the trades request follows the
\* order query and carries the order id the venue answered with.
C26_Witness ==
    \E i \in InfoCallIds :
        /\ info_calls[i].order_id = <<>>
        /\ info_calls[i].include_trades
        /\ info_calls[i].outcome = "OrderInfo"
        /\ Len(InfoRequestsOf(i)) = 2
        /\ InfoRequestsOf(i)[1].order_id = <<>>
        /\ InfoRequestsOf(i)[2].order_id = <<2>>
        /\ Len(info_calls[i].result[1].trades) = 1

\* The sum of the amounts of a trade list.
RECURSIVE TradeAmountSum(_, _)
TradeAmountSum(trades, n) ==
    IF n = 0 THEN 0 ELSE TradeAmount(trades[n]) + TradeAmountSum(trades, n - 1)

\* C27: the amounts of the trades of an OrderInfo returned with
\* include_trades sum to its amount_filled.
C27_TradesSumToAmountFilled ==
    \A i \in InfoCallIds :
        (info_calls[i].outcome = "OrderInfo" /\ info_calls[i].include_trades) =>
            TradeAmountSum(info_calls[i].result[1].trades,
                           Len(info_calls[i].result[1].trades))
                = info_calls[i].result[1].amount_filled

(***************************************************************************)
(* Properties of get_pair followed by get_pair_info                        *)
(***************************************************************************)
\* The catalog entry the last get_pair resolved.
Resolved ==
    GetPairMatches(pair_call.exchange_info.symbols, pair_call.symbol, pair_call.pair,
                   pair_call.contract_type)[1]

C29_CreateForEveryAccountType ==
    \A n \in 1..Len(exchanges) :
        LET made == exchanges[n]
        IN  /\ is_spot_or_margin(made.account_type) =>
                  made.result.ok /\ made.result.value[1].class = "SpotExchange"
            /\ is_futures(made.account_type) =>
                  made.result.ok /\ made.result.value[1].class = "FuturesExchange"
            /\ ~made.result.ok =>
                  ~is_spot_or_margin(made.account_type) /\ ~is_futures(made.account_type)

====
